---- MODULE Spec2Model ----
(***************************************************************************)
(* Model of the batch geodata importer of the CO2 Storage Atlas            *)
(* (class ProductionDataImporter, src/unnamed/part_002).                   *)
(*                                                                         *)
(* Conventions                                                             *)
(*  - A JavaScript value is a record [t, v]: t is its kind ("num", "nan",  *)
(*    "inf", "str", "undef", "arr"), v its payload (the integer of a       *)
(*    number, the sequence of items of an array, 0 otherwise).             *)
(*  - Longitudes, latitudes and bounds are fixed point numbers in tenths   *)
(*    of a degree: 135 is 13.5 degrees, 1800 is 180 degrees.  Projected    *)
(*    coordinates are whole metres.                                        *)
(*  - A geometry is a record [type, coordinates]; the null geometry and a  *)
(*    raised exception are the distinguished records NullGeometry and      *)
(*    Thrown.                                                              *)
(***************************************************************************)
EXTENDS Integers, Sequences, FiniteSets, TLC

(***************************************************************************)
(* JavaScript values                                                       *)
(***************************************************************************)
Num(n) == [t |-> "num", v |-> n]
NaN == [t |-> "nan", v |-> 0]
Undef == [t |-> "undef", v |-> 0]
Infinity == [t |-> "inf", v |-> 0]
\* a string that is not the text of a number
NotANumber == [t |-> "str", v |-> 0]
Arr(items) == [t |-> "arr", v |-> items]
Pair(x, y) == Arr(<<Num(x), Num(y)>>)

NullGeometry == [type |-> "<null>", coordinates |-> Undef]
Thrown == [type |-> "<thrown>", coordinates |-> Undef]
Geometry(type, coordinates) == [type |-> type, coordinates |-> coordinates]

\* Array.isArray(x)
IsArray(x) == x.t = "arr"
\* x[0] of a value x: the first item of a non-empty array, undefined otherwise
First(x) == IF IsArray(x) /\ Len(x.v) > 0 THEN x.v[1] ELSE Undef
\* typeof x === 'number' (NaN and the infinities are numbers)
IsNumberType(x) == x.t \in {"num", "nan", "inf"}
\* typeof x === 'number' && isFinite(x)
IsFiniteNumber(x) == x.t = "num"
\* reading a member of x raises a TypeError when x is undefined or null
ReadThrows(x) == x.t = "undef"

(***************************************************************************)
(* The two candidate projections, src/unnamed/part_002:29-33.  proj4 is a  *)
(* library outside the repository: each forward projection is linearised   *)
(* about the false origin its definition string gives (x_0, y_0 in metres, *)
(* lon_0, lat_0 in tenths of a degree), with 7500 m per tenth of a degree  *)
(* of longitude and 11100 m per tenth of a degree of latitude.  For a      *)
(* point the projection has no longitude and latitude for, proj4 answers   *)
(* the pair [NaN, NaN].                                                    *)
(***************************************************************************)
\* the WGS84 range in tenths of a degree
LonMax == 1800
LatMax == 900

MetresPerLon == 7500
MetresPerLat == 11100

projections ==
    [p \in {"EPSG:31287", "EPSG:31259"} |->
        IF p = "EPSG:31287"
        THEN [x_0 |-> 400000, y_0 |-> 400000, lon_0 |-> 133, lat_0 |-> 475]
        ELSE [x_0 |-> 150000, y_0 |-> -5000000, lon_0 |-> 103, lat_0 |-> 0]]

\* transformer.forward(coords): the projected pair (further items of coords
\* are kept); proj4 raises on a coordinate that is not a finite number.
ForwardThrows(coords) ==
    \/ ~IsArray(coords)
    \/ Len(coords.v) < 2
    \/ ~IsFiniteNumber(coords.v[1])
    \/ ~IsFiniteNumber(coords.v[2])

Forward(coords, fromProj) ==
    LET d == projections[fromProj]
        lon == d.lon_0 + ((coords.v[1].v - d.x_0) \div MetresPerLon)
        lat == d.lat_0 + ((coords.v[2].v - d.y_0) \div MetresPerLat)
        solved == lon >= -LonMax /\ lon <= LonMax /\ lat >= -LatMax /\ lat <= LatMax
    IN  Arr((IF solved THEN <<Num(lon), Num(lat)>> ELSE <<NaN, NaN>>)
                \o SubSeq(coords.v, 3, Len(coords.v)))

\* tryTransform(coords, fromProj): the projection, or null (Undef) when it raises
tryTransform(coords, fromProj) ==
    IF ForwardThrows(coords) THEN Undef ELSE Forward(coords, fromProj)

(***************************************************************************)
(* Validity of a coordinate pair and of a geometry                         *)
(***************************************************************************)
isValidWGS84(coords) ==
    IF ~IsArray(coords) \/ Len(coords.v) < 2 THEN FALSE
    ELSE /\ IsNumberType(coords.v[1])
         /\ IsNumberType(coords.v[2])
         /\ IsFiniteNumber(coords.v[1])
         /\ IsFiniteNumber(coords.v[2])
         /\ coords.v[1].v >= -LonMax /\ coords.v[1].v <= LonMax
         /\ coords.v[2].v >= -LatMax /\ coords.v[2].v <= LatMax

\* extractFirstCoordinate(geometry): descend through first items
RECURSIVE FirstLeaf(_)
FirstLeaf(coords) ==
    IF IsArray(First(coords)) THEN FirstLeaf(First(coords)) ELSE coords

extractFirstCoordinate(geometry) ==
    IF geometry = NullGeometry \/ geometry.coordinates = Undef THEN Arr(<<>>)
    ELSE FirstLeaf(geometry.coordinates)

isWGS84(geometry) == isValidWGS84(extractFirstCoordinate(geometry))

\* extractCoordinates(geometry): the first coordinate, or the fixed
\* substitute location [13.5, 47.8]
SubstituteLocation == Pair(135, 478)

extractCoordinates(geometry) ==
    LET coords == extractFirstCoordinate(geometry)
    IN  IF isValidWGS84(coords) THEN coords ELSE SubstituteLocation

(***************************************************************************)
(* transformGeometry, src/unnamed/part_002:1134-1152                       *)
(***************************************************************************)
Throw == [t |-> "throw", v |-> 0]

\* A leaf branch that consults the candidates in the opposite order
\* (EPSG:31259 before EPSG:31287); not the order of the source.
transformLeafSecondFirst(coords) ==
    LET r2 == tryTransform(coords, "EPSG:31259")
    IN  IF isValidWGS84(r2)
        THEN [value |-> r2, tried |-> <<"EPSG:31259">>]
        ELSE LET r1 == tryTransform(coords, "EPSG:31287")
             IN  [value |-> IF r1 # Undef THEN r1 ELSE coords,
                  tried |-> <<"EPSG:31259", "EPSG:31287">>]

\* The leaf branch of transformCoords: the first candidate, then the second
\* when the first result is not valid WGS84, then `result || coords`.
\* tried lists the candidates tryTransform was called with.
transformLeaf(coords) ==
    LET r1 == tryTransform(coords, "EPSG:31287")
    IN  IF isValidWGS84(r1)
        THEN [value |-> r1, tried |-> <<"EPSG:31287">>]
        ELSE LET r2 == tryTransform(coords, "EPSG:31259")
             IN  [value |-> IF r2 # Undef THEN r2 ELSE coords,
                  tried |-> <<"EPSG:31287", "EPSG:31259">>]

RECURSIVE transformCoords(_)
transformCoords(coords) ==
    IF ReadThrows(coords) THEN Throw
    ELSE IF IsArray(First(coords))
    THEN LET rs == [i \in 1..Len(coords.v) |-> transformCoords(coords.v[i])]
         IN  IF \E i \in 1..Len(coords.v) : rs[i] = Throw THEN Throw ELSE Arr(rs)
    ELSE transformLeaf(coords).value

transformGeometry(geometry) ==
    IF geometry = NullGeometry THEN NullGeometry
    ELSE IF isWGS84(geometry) THEN geometry
    ELSE LET c == transformCoords(geometry.coordinates)
         IN  IF c = Throw THEN Thrown
             ELSE [geometry EXCEPT !.coordinates = c]

(***************************************************************************)
(* isValidGeoJSON, src/unnamed/part_002:1178-1191                          *)
(***************************************************************************)
\* A leaf test that accepts every array of finite numbers, whatever its
\* length; not the test of the source.
RECURSIVE checkCoordsAnyArity(_)
checkCoordsAnyArity(coords) ==
    IF IsArray(First(coords))
    THEN \A i \in 1..Len(coords.v) : checkCoordsAnyArity(coords.v[i])
    ELSE /\ IsArray(coords)
         /\ \A i \in 1..Len(coords.v) : IsFiniteNumber(coords.v[i])

RECURSIVE checkCoords(_)
checkCoords(coords) ==
    IF IsArray(First(coords))
    THEN \A i \in 1..Len(coords.v) : checkCoords(coords.v[i])
    ELSE /\ IsArray(coords)
         /\ Len(coords.v) = 2
         /\ \A i \in 1..Len(coords.v) : IsFiniteNumber(coords.v[i])

isValidGeoJSON(geometry) ==
    IF geometry = NullGeometry \/ geometry.type = "" \/ geometry.coordinates = Undef
    THEN FALSE
    ELSE checkCoords(geometry.coordinates)

(***************************************************************************)
(* Leaves, bounding box and vertex count                                   *)
(***************************************************************************)
\* the leaf coordinate arrays of a coordinates structure, in order
RECURSIVE Leaves(_)
RECURSIVE LeavesOfItems(_, _, _)
Leaves(coords) ==
    IF IsArray(First(coords)) THEN LeavesOfItems(coords.v, 1, Len(coords.v))
    ELSE <<coords>>
\* the leaves of items[lo..hi], in order
LeavesOfItems(items, lo, hi) ==
    IF lo > hi THEN <<>>
    ELSE IF lo = hi THEN Leaves(items[lo])
    ELSE LeavesOfItems(items, lo, (lo + hi) \div 2)
            \o LeavesOfItems(items, ((lo + hi) \div 2) + 1, hi)

Min(a, b) == IF a <= b THEN a ELSE b
Max(a, b) == IF a >= b THEN a ELSE b
SetMin(S) == CHOOSE m \in S : \A n \in S : m <= n
SetMax(S) == CHOOSE m \in S : \A n \in S : m >= n

\* the unset bounds (null) and a bounding box [minLon, minLat, maxLon, maxLat]
NoBounds == <<>>

GeometryTypes ==
    {"Point", "MultiPoint", "LineString", "MultiLineString", "Polygon", "MultiPolygon"}

\* turf.bbox(geometry) of a geometry whose leaves are finite pairs
bbox(geometry) ==
    LET ls == Leaves(geometry.coordinates)
        xs == {ls[i].v[1].v : i \in 1..Len(ls)}
        ys == {ls[i].v[2].v : i \in 1..Len(ls)}
    IN  <<SetMin(xs), SetMin(ys), SetMax(xs), SetMax(ys)>>

\* getGeometryBounds(geometry): the box, or null when turf raises
getGeometryBounds(geometry) ==
    IF geometry.type \in GeometryTypes THEN bbox(geometry) ELSE NoBounds

\* getGeometryComplexity(geometry): the number of leaves
getGeometryComplexity(geometry) == Len(Leaves(geometry.coordinates))

(***************************************************************************)
(* The area filter, src/unnamed/part_002:158-174                           *)
(***************************************************************************)
\* A point test that leaves the edges of the box out; not the test of the source.
isWithinAreaBoundsOpen(aoi, longitude, latitude) ==
    IF aoi = NoBounds THEN TRUE
    ELSE /\ longitude > aoi[1] /\ longitude < aoi[3]
         /\ latitude > aoi[2] /\ latitude < aoi[4]

isWithinAreaBounds(aoi, longitude, latitude) ==
    IF aoi = NoBounds THEN TRUE
    ELSE /\ longitude >= aoi[1] /\ longitude <= aoi[3]
         /\ latitude >= aoi[2] /\ latitude <= aoi[4]

\* A box test for which touching boxes are disjoint; not the test of the source.
boundsIntersectAreaOpen(aoi, bounds) ==
    IF bounds = NoBounds \/ aoi = NoBounds THEN TRUE
    ELSE ~(\/ bounds[3] <= aoi[1]
           \/ bounds[1] >= aoi[3]
           \/ bounds[4] <= aoi[2]
           \/ bounds[2] >= aoi[4])

boundsIntersectArea(aoi, bounds) ==
    IF bounds = NoBounds \/ aoi = NoBounds THEN TRUE
    ELSE ~(\/ bounds[3] < aoi[1]
           \/ bounds[1] > aoi[3]
           \/ bounds[4] < aoi[2]
           \/ bounds[2] > aoi[4])

(***************************************************************************)
(* The orchestrator's steps and the importers' source files and tables     *)
(***************************************************************************)
\* An order in which the tables are cleared after the boundaries are imported;
\* not the order of the source.
StepOrderClearAfterBoundaries ==
    <<"connect", "checkDataDirectories", "loadAreaBounds", "importBoundaries",
      "clearExistingData", "importUpdatedVotingDistricts", "importCO2Sources",
      "importLandfills", "importGravelPits", "importWastewaterPlants",
      "importGasInfrastructure", "importGroundwaterAreasOptimized",
      "importConservationAreasOptimized", "importResidentialAreasOptimized",
      "importRoads", "importRailways", "createMaterializedViews",
      "updateGeometryValidation", "printSummary">>

\* importAllData's awaited calls in order (the wrappers importCSVExcelData,
\* importShapefileData, importUnsuitableAreasOptimized and
\* importTransportInfrastructure are flattened into the importers they await)
StepOrder ==
    <<"connect", "checkDataDirectories", "loadAreaBounds", "clearExistingData",
      "importBoundaries", "importUpdatedVotingDistricts", "importCO2Sources",
      "importLandfills", "importGravelPits", "importWastewaterPlants",
      "importGasInfrastructure", "importGroundwaterAreasOptimized",
      "importConservationAreasOptimized", "importResidentialAreasOptimized",
      "importRoads", "importRailways", "createMaterializedViews",
      "updateGeometryValidation", "printSummary">>

IndexOf(seq, x) == CHOOSE i \in 1..Len(seq) : seq[i] = x

\* the tables clearExistingData truncates, in order
ClearTables ==
    <<"co2_sources", "voting_districts", "landfills", "gravel_pits",
      "wastewater_plants", "gas_pipelines", "gas_storage_sites",
      "gas_distribution_points", "compressor_stations", "study_area_boundaries",
      "groundwater_protection", "conservation_areas", "settlement_areas",
      "highways", "railways">>

Tables == {ClearTables[i] : i \in 1..Len(ClearTables)}

\* the number of upper_austria_nature files u1.shp .. u24.shp
ConservationParts == 24

ConservationFiles ==
    <<"reprojected_salzburg_nature.shp">> \o [i \in 1..ConservationParts |-> "u" \o ToString(i) \o ".shp"]

CsvImporters ==
    {"importCO2Sources", "importLandfills", "importGravelPits", "importWastewaterPlants"}
PolygonImporters ==
    {"importGroundwaterAreasOptimized", "importConservationAreasOptimized",
     "importResidentialAreasOptimized"}
TransportImporters == {"importRoads", "importRailways"}
Importers ==
    {"importBoundaries", "importUpdatedVotingDistricts", "importGasInfrastructure"}
        \cup CsvImporters \cup PolygonImporters \cup TransportImporters

\* the source files each step reads, in the order it reads them
FilesOf(step) ==
    CASE step = "loadAreaBounds" -> <<"salzburg.shp", "upper_austria.shp">>
      [] step = "importBoundaries" -> <<"sal_aus_communes.shp">>
      [] step = "importUpdatedVotingDistricts" -> <<"updated_commune.shp">>
      [] step = "importCO2Sources" -> <<"CO2 sources.xlsx">>
      [] step = "importLandfills" -> <<"LandfiilsDeponien.csv">>
      [] step = "importGravelPits" -> <<"Gravel pits  stone quarries.csv.csv">>
      [] step = "importWastewaterPlants" -> <<"Wastewater treatment plants.csv">>
      [] step = "importGasInfrastructure" ->
            <<"Gas Network Lines.shp", "Gas Storage Facilities.shp",
              "Gas Distribution Points.shp", "Compressor station.shp">>
      [] step = "importGroundwaterAreasOptimized" ->
            <<"reprojected_salzburg_water.shp", "reprojected_upper_austria_water.shp">>
      [] step = "importConservationAreasOptimized" -> ConservationFiles
      [] step = "importResidentialAreasOptimized" ->
            <<"Salzburg_Residential_BAEW_Only.shp", "Upper_Austria_Residential_Official.shp">>
      [] step = "importRoads" ->
            <<"salzburg_primary_roads.shp", "upper_austria_primary_roads.shp">>
      [] step = "importRailways" ->
            <<"salzburg_railway.shp", "upper_austria_railway.shp">>
      [] OTHER -> <<>>

\* the destination table of a source file
TableOf(step, file) ==
    CASE step = "importBoundaries" -> "study_area_boundaries"
      [] step = "importUpdatedVotingDistricts" -> "voting_districts"
      [] step = "importCO2Sources" -> "co2_sources"
      [] step = "importLandfills" -> "landfills"
      [] step = "importGravelPits" -> "gravel_pits"
      [] step = "importWastewaterPlants" -> "wastewater_plants"
      [] step = "importGasInfrastructure" ->
            (CASE file = "Gas Network Lines.shp" -> "gas_pipelines"
               [] file = "Gas Storage Facilities.shp" -> "gas_storage_sites"
               [] file = "Gas Distribution Points.shp" -> "gas_distribution_points"
               [] OTHER -> "compressor_stations")
      [] step = "importGroundwaterAreasOptimized" -> "groundwater_protection"
      [] step = "importConservationAreasOptimized" -> "conservation_areas"
      [] step = "importResidentialAreasOptimized" -> "settlement_areas"
      [] step = "importRoads" -> "highways"
      [] OTHER -> "railways"

\* the per-layer counter of this.stats a table's inserts are counted in
StatOf(table) ==
    CASE table = "co2_sources" -> "co2Sources"
      [] table = "voting_districts" -> "votingDistricts"
      [] table = "landfills" -> "landfills"
      [] table = "gravel_pits" -> "gravelPits"
      [] table = "wastewater_plants" -> "wastewaterPlants"
      [] table = "gas_pipelines" -> "gasPipelines"
      [] table = "gas_storage_sites" -> "gasStorage"
      [] table = "gas_distribution_points" -> "gasDistribution"
      [] table = "compressor_stations" -> "compressorStations"
      [] table = "groundwater_protection" -> "groundwaterAreas"
      [] table = "conservation_areas" -> "conservationAreas"
      [] table = "settlement_areas" -> "residentialAreas"
      [] table = "highways" -> "roads"
      [] OTHER -> "railways"

\* this.stats after construction
InitialStats ==
    [co2Sources |-> 0, votingDistricts |-> 0, landfills |-> 0, gravelPits |-> 0,
     wastewaterPlants |-> 0, gasPipelines |-> 0, gasStorage |-> 0,
     gasDistribution |-> 0, compressorStations |-> 0, groundwaterAreas |-> 0,
     conservationAreas |-> 0, residentialAreas |-> 0, roads |-> 0, railways |-> 0,
     errors |-> 0, filteredOutByArea |-> 0]

\* The unrestricted caps in either mode; not the caps of the source.
maxFeaturesUnrestricted(step, isProduction) ==
    CASE step = "importGroundwaterAreasOptimized" -> 50000
      [] step = "importConservationAreasOptimized" -> 10000
      [] step = "importResidentialAreasOptimized" -> 15000
      [] step = "importRoads" -> 5000
      [] OTHER -> 2000

\* maxFeatures of the capped importers
maxFeatures(step, isProduction) ==
    CASE step = "importGroundwaterAreasOptimized" -> IF isProduction THEN 5000 ELSE 50000
      [] step = "importConservationAreasOptimized" -> IF isProduction THEN 2000 ELSE 10000
      [] step = "importResidentialAreasOptimized" -> IF isProduction THEN 3000 ELSE 15000
      [] step = "importRoads" -> IF isProduction THEN 1000 ELSE 5000
      [] OTHER -> IF isProduction THEN 500 ELSE 2000

\* One vertex count for every polygon importer; not the counts of the source.
simplifyThresholdUniform(step) ==
    IF step = "importGroundwaterAreasOptimized" THEN 500 ELSE 500

\* the vertex count above which a polygon importer simplifies
simplifyThreshold(step) ==
    IF step = "importGroundwaterAreasOptimized" THEN 1000 ELSE 500

(***************************************************************************)
(* Source records.  A shapefile feature carries a geometry and a natural   *)
(* key (g_id or gkz, Undef when absent); a CSV or spreadsheet row carries  *)
(* its two coordinate cells (lon, lat: the cells the importer reads as     *)
(* longitude and latitude).                                                *)
(***************************************************************************)
\* the six percentage columns of a voting district feature, all absent
NoVotes ==
    [SPO_perc |-> Undef, GRUENE_per |-> Undef, KPOE_perc |-> Undef,
     OEVP_perc |-> Undef, FPOE_perc |-> Undef, NEOS_perce |-> Undef]

\* total is the Total_CO2_t cell of a row of the CO2 sources sheet, in tonnes
Feature(id, key, geometry) ==
    [id |-> id, key |-> key, geometry |-> geometry, lon |-> Undef, lat |-> Undef,
     votes |-> NoVotes, total |-> Undef]
Row(id, lon, lat) ==
    [id |-> id, key |-> Undef, geometry |-> NullGeometry, lon |-> lon, lat |-> lat,
     votes |-> NoVotes, total |-> Undef]

\* parseFloat of a cell: the number of a numeric cell, NaN otherwise
parseFloat(cell) == IF cell.t = "num" THEN cell ELSE NaN

\* a source file: missing, present but unreadable, or its records
MissingFile == [status |-> "missing", records |-> <<>>]
UnreadableFile == [status |-> "unreadable", records |-> <<>>]
FileWith(records) == [status |-> "ok", records |-> records]

\* valid WGS84, inside AreaBox
fA == Feature(1, Num(10), Geometry("LineString", Arr(<<Pair(130, 470), Pair(135, 475)>>)))
\* a malformed coordinate (NaN) in the first leaf
fB == Feature(2, Num(20), Geometry("LineString", Arr(<<Arr(<<NaN, Num(470)>>), Pair(135, 475)>>)))
\* valid WGS84, outside AreaBox
fC == Feature(3, Num(30), Geometry("LineString", Arr(<<Pair(200, 500), Pair(210, 510)>>)))
\* in the Lambert grid: both candidates give valid WGS84, the results differ
fD == Feature(4, Num(10), Geometry("Point", Pair(400000, 400000)))
\* only the second candidate gives valid WGS84
fE == Feature(5, Undef, Geometry("Point", Pair(-14110000, 400000)))
\* both candidates give a result out of the WGS84 range
fF == Feature(6, Num(60), Geometry("Point", Pair(20000000, 400000)))
\* first leaf in WGS84 range, second leaf in the Lambert grid
fG == Feature(7, Num(70), Geometry("LineString", Arr(<<Pair(130, 470), Pair(400000, 400000)>>)))
\* first leaf in the Lambert grid, second leaf in WGS84 range
fH == Feature(8, Num(80), Geometry("LineString", Arr(<<Pair(400000, 400000), Pair(130, 470)>>)))
\* a single leaf on which both candidates raise
fI == Feature(9, Num(90), Geometry("Point", Arr(<<NaN, Num(470)>>)))
\* a geometry object without a coordinates member
fJ == Feature(10, Num(100), Geometry("Polygon", Undef))

\* a ring of n positions inside AreaBox, every second one repeating its
\* predecessor
Ring(n) == Arr([i \in 1..n |-> Pair(130 + ((i \div 2) % 2), 470 + ((i \div 4) % 10))])
\* a polygon of n vertices in one ring
Large(n) == Feature(n, Num(n), Geometry("Polygon", Arr(<<Ring(n)>>)))
\* a polygon of n vertices whose second ring has three positions only
LargeBroken(n) == Feature(n, Num(n), Geometry("Polygon", Arr(<<Ring(n - 3), Ring(3)>>)))

\* inside AreaBox; a non-numeric longitude cell; outside AreaBox; out of range
rA == Row(1, Num(130), Num(470))
rB == Row(2, [t |-> "str", v |-> 0], Num(470))
rC == Row(3, Num(200), Num(500))
rF == Row(6, Num(2000), Num(470))

\* the boundary polygons of the two area-of-interest files
areaSalzburg ==
    Feature(1, Num(1), Geometry("Polygon",
        Arr(<<Arr(<<Pair(120, 460), Pair(150, 460), Pair(150, 490), Pair(120, 490), Pair(120, 460)>>)>>)))
areaUpperAustria ==
    Feature(2, Num(2), Geometry("Polygon",
        Arr(<<Arr(<<Pair(130, 470), Pair(170, 470), Pair(170, 500), Pair(130, 500), Pair(130, 470)>>)>>)))

\* the bounding box of areaSalzburg
AreaBox == <<120, 460, 150, 490>>

Permutations3(a, b, c) ==
    {<<a, b, c>>, <<a, c, b>>, <<b, a, c>>, <<b, c, a>>, <<c, a, b>>, <<c, b, a>>}

\* the record lists a shapefile under test is drawn from
FeatureLists ==
    Permutations3(fA, fB, fC)
        \cup {<<f>> : f \in {fA, fB, fC, fD, fE, fF, fG, fH, fI, fJ}}
        \cup {<<f, fA>> : f \in {fB, fC, fD, fF, fG, fJ}}
        \cup {<<fA, fJ>>}
        \cup {<<>>}

\* Voting district features.  Percentages are in hundredths of a percent, the
\* resolution of the NUMERIC(5,2) columns they are stored in.
District(id, key, votes) ==
    [Feature(id, key, Geometry("Point", Pair(130, 470))) EXCEPT !.votes = votes]
Votes(spo, grune, kpo, ovp, fpo, neos) ==
    [SPO_perc |-> spo, GRUENE_per |-> grune, KPOE_perc |-> kpo,
     OEVP_perc |-> ovp, FPOE_perc |-> fpo, NEOS_perce |-> neos]

\* 20 / 10 / 2 / 30 / 30 / 8 percent
dExample ==
    District(11, Num(11), Votes(Num(2000), Num(1000), Num(200), Num(3000), Num(3000), Num(800)))
dZeros == District(12, Num(12), Votes(Num(0), Num(0), Num(0), Num(0), Num(0), Num(0)))
dAbsent == District(13, Num(13), NoVotes)
\* only parties outside the combined three have votes
dOthersOnly == District(14, Num(14), Votes(Num(0), Undef, Num(0), Num(3000), Num(0), Num(100)))
\* a column that is not numeric next to numeric ones
dText == District(15, Num(15), Votes(NotANumber, Num(500), Undef, NotANumber, Num(0), Undef))
\* gkz 0 and gkz not numeric: parseInt(gkz) || null
dKeyZero == District(16, Num(0), Votes(Num(100), Num(0), Num(0), Num(0), Num(0), Num(0)))
dKeyText == District(17, NotANumber, Votes(Num(100), Num(0), Num(0), Num(0), Num(0), Num(0)))

\* the combined percentages just below and on every threshold of the colors
ThresholdPercents ==
    {1, 499, 500, 999, 1000, 1499, 1500, 1999, 2000, 2999, 3000, 3999, 4000, 4999,
     5000, 5999, 6000, 10000}
DistrictLists ==
    {<<d>> : d \in {dExample, dZeros, dAbsent, dOthersOnly, dText, dKeyZero, dKeyText}}
        \cup {<<District(20, Num(20), Votes(Num(x), Undef, Undef, Undef, Undef, Undef))>> :
                 x \in ThresholdPercents}
        \cup {<<dExample, dZeros>>, <<dExample, dExample>>}

\* CO2 source rows inside AreaBox with their Total_CO2_t cell: around the
\* prominence threshold, zero, missing and not numeric
Source(id, total) == [Row(id, Num(130), Num(470)) EXCEPT !.total = total]
TotalInputs == {Num(0), Num(49999), Num(50000), Num(50001), Num(900000), Undef, NotANumber}
SourceLists ==
    {<<Source(30, total)>> : total \in TotalInputs}
        \cup {<<Source(31, Num(50000)), Source(32, Num(50001))>>}

\* the record lists a CSV or spreadsheet file under test is drawn from
RowLists ==
    Permutations3(rA, rB, rC) \cup {<<r>> : r \in {rA, rF}} \cup {<<rA, rA>>, <<>>}

AllFiles ==
    UNION {{FilesOf(s)[i] : i \in 1..Len(FilesOf(s))} : s \in Importers \cup {"loadAreaBounds"}}

(***************************************************************************)
(* The derived columns of a voting district, src/unnamed/part_002:267-281, *)
(* and getVotingColor, src/unnamed/part_002:1207-1220.  Percentages are in *)
(* hundredths of a percent.                                                *)
(***************************************************************************)
\* A step function whose thresholds belong to the bucket below; not the
\* function of the source.
getVotingColorExclusive(percentage) ==
    IF percentage.t \in {"nan", "undef", "str"} THEN "#cccccc"
    ELSE IF percentage.t = "inf" THEN "#00AA00"
    ELSE LET p == percentage.v
         IN  IF p <= 0 THEN "#cccccc"
             ELSE IF p > 6000 THEN "#00AA00"
             ELSE IF p > 5000 THEN "#22BB22"
             ELSE IF p > 4000 THEN "#44CC44"
             ELSE IF p > 3000 THEN "#66DD66"
             ELSE IF p > 2000 THEN "#88EE88"
             ELSE IF p > 1500 THEN "#AAAA00"
             ELSE IF p > 1000 THEN "#CCCC00"
             ELSE IF p > 500 THEN "#DDAA00"
             ELSE "#EE8800"

\* getVotingColor(percentage): `!percentage` is true of 0, NaN and undefined
getVotingColor(percentage) ==
    IF percentage.t \in {"nan", "undef", "str"} THEN "#cccccc"
    ELSE IF percentage.t = "inf" THEN "#00AA00"
    ELSE LET p == percentage.v
         IN  IF p = 0 \/ p <= 0 THEN "#cccccc"
             ELSE IF p >= 6000 THEN "#00AA00"
             ELSE IF p >= 5000 THEN "#22BB22"
             ELSE IF p >= 4000 THEN "#44CC44"
             ELSE IF p >= 3000 THEN "#66DD66"
             ELSE IF p >= 2000 THEN "#88EE88"
             ELSE IF p >= 1500 THEN "#AAAA00"
             ELSE IF p >= 1000 THEN "#CCCC00"
             ELSE IF p >= 500 THEN "#DDAA00"
             ELSE IF p > 0 THEN "#EE8800"
             ELSE "#cccccc"

\* the color parameter of the INSERT of a voting district:
\* hasVotingData ? this.getVotingColor(leftGreenCombined) : '#cccccc'
choroplethColor(leftGreenCombined, hasVotingData) ==
    IF hasVotingData THEN getVotingColor(leftGreenCombined) ELSE "#cccccc"

\* A CASE expression whose first bucket starts above 60; not the expression
\* of the source.
computedFillColorAbove60(left_green_combined, has_voting_data) ==
    LET p == left_green_combined.v
    IN  IF ~has_voting_data THEN "#cccccc"
        ELSE IF left_green_combined.t # "num" THEN "#cccccc"
        ELSE IF p > 6000 THEN "#00AA00"
        ELSE IF p >= 5000 THEN "#22BB22"
        ELSE IF p >= 4000 THEN "#44CC44"
        ELSE IF p >= 3000 THEN "#66DD66"
        ELSE IF p >= 2000 THEN "#88EE88"
        ELSE IF p >= 1500 THEN "#AAAA00"
        ELSE IF p >= 1000 THEN "#CCCC00"
        ELSE IF p >= 500 THEN "#DDAA00"
        ELSE IF p > 0 THEN "#EE8800"
        ELSE "#cccccc"

\* computed_fill_color of mv_voting_choropleth, src/unnamed/part_002:1048-1060:
\* the CASE over has_voting_data and left_green_combined; a comparison with
\* NULL (Undef) is not true, so that the ELSE branch answers
computedFillColor(left_green_combined, has_voting_data) ==
    LET p == left_green_combined.v
    IN  IF ~has_voting_data THEN "#cccccc"
        ELSE IF left_green_combined.t # "num" THEN "#cccccc"
        ELSE IF p >= 6000 THEN "#00AA00"
        ELSE IF p >= 5000 THEN "#22BB22"
        ELSE IF p >= 4000 THEN "#44CC44"
        ELSE IF p >= 3000 THEN "#66DD66"
        ELSE IF p >= 2000 THEN "#88EE88"
        ELSE IF p >= 1500 THEN "#AAAA00"
        ELSE IF p >= 1000 THEN "#CCCC00"
        ELSE IF p >= 500 THEN "#DDAA00"
        ELSE IF p > 0 THEN "#EE8800"
        ELSE "#cccccc"

\* a NUMERIC column as the API hands it to the browser: node-postgres gives
\* the decimal string, JSON keeps it a string; NULL stays null
NumericString(x) == IF x.t = "num" THEN [t |-> "numstr", v |-> x.v] ELSE x

\* the number a comparison of the browser makes of its operand
ToNumber(x) == IF x.t = "numstr" THEN Num(x.v) ELSE x

\* getVotingColor(percentage, hasData) of the browser client,
\* src/public/js/app.js:1908-1921: !percentage is true of null, NaN and the
\* number 0, false of a decimal string; the comparisons convert the string
appGetVotingColor(percentage, hasData) ==
    LET falsy == \/ percentage.t \in {"undef", "nan"}
                 \/ percentage.t = "num" /\ percentage.v = 0
        n == ToNumber(percentage)
    IN  IF ~hasData \/ falsy THEN "#cccccc"
        ELSE IF n.t = "str" THEN "#cccccc"
        ELSE IF n.t = "inf" THEN "#00AA00"
        ELSE IF n.v <= 0 THEN "#cccccc"
        ELSE IF n.v >= 6000 THEN "#00AA00"
        ELSE IF n.v >= 5000 THEN "#22BB22"
        ELSE IF n.v >= 4000 THEN "#44CC44"
        ELSE IF n.v >= 3000 THEN "#66DD66"
        ELSE IF n.v >= 2000 THEN "#88EE88"
        ELSE IF n.v >= 1500 THEN "#AAAA00"
        ELSE IF n.v >= 1000 THEN "#CCCC00"
        ELSE IF n.v >= 500 THEN "#DDAA00"
        ELSE IF n.v > 0 THEN "#EE8800"
        ELSE "#cccccc"

\* parseFloat(cell) || 0
percentOf(cell) == IF parseFloat(cell).t = "num" THEN parseFloat(cell).v ELSE 0

\* Derived columns in which only the three combined parties give voting
\* data; not the columns of the source.
votingColumnsLeftOnly(votes) ==
    LET spoPercent == percentOf(votes.SPO_perc)
        grunePercent == percentOf(votes.GRUENE_per)
        kpoPercent == percentOf(votes.KPOE_perc)
        leftGreenCombined == spoPercent + grunePercent + kpoPercent
        hasVotingData == spoPercent > 0 \/ grunePercent > 0 \/ kpoPercent > 0
    IN  [spo_percent |-> spoPercent, ovp_percent |-> percentOf(votes.OEVP_perc),
         fpo_percent |-> percentOf(votes.FPOE_perc), grune_percent |-> grunePercent,
         kpo_percent |-> kpoPercent, neos_percent |-> percentOf(votes.NEOS_perce),
         left_green_combined |-> leftGreenCombined,
         choropleth_color |-> choroplethColor(Num(leftGreenCombined), hasVotingData),
         has_voting_data |-> hasVotingData]

\* the percentage and derived parameters of the INSERT of a voting district
votingColumns(votes) ==
    LET spoPercent == percentOf(votes.SPO_perc)
        grunePercent == percentOf(votes.GRUENE_per)
        kpoPercent == percentOf(votes.KPOE_perc)
        ovpPercent == percentOf(votes.OEVP_perc)
        fpoPercent == percentOf(votes.FPOE_perc)
        neosPercent == percentOf(votes.NEOS_perce)
        leftGreenCombined == spoPercent + grunePercent + kpoPercent
        hasVotingData == \/ spoPercent > 0 \/ grunePercent > 0 \/ kpoPercent > 0
                         \/ ovpPercent > 0 \/ fpoPercent > 0 \/ neosPercent > 0
    IN  [spo_percent |-> spoPercent, ovp_percent |-> ovpPercent,
         fpo_percent |-> fpoPercent, grune_percent |-> grunePercent,
         kpo_percent |-> kpoPercent, neos_percent |-> neosPercent,
         left_green_combined |-> leftGreenCombined,
         choropleth_color |-> choroplethColor(Num(leftGreenCombined), hasVotingData),
         has_voting_data |-> hasVotingData]

\* the columns of a row of any other table
NoVotingColumns == votingColumns(NoVotes)

(***************************************************************************)
(* The derived columns of a CO2 source, src/unnamed/part_002:361-362       *)
(***************************************************************************)
ProminentThreshold == 50000

\* Columns in which the threshold itself is prominent; not the columns of
\* the source.
co2ColumnsInclusive(total) ==
    LET totalCO2 == IF total.t = "undef" \/ (total.t = "num" /\ total.v = 0)
                    THEN Num(0) ELSE parseFloat(total)
        isProminent == totalCO2.t = "num" /\ totalCO2.v >= ProminentThreshold
    IN  [total_co2_t |-> totalCO2, is_prominent |-> isProminent,
         pin_size |-> IF isProminent THEN 4 ELSE 2]

\* totalCO2 = parseFloat(row['Total_CO2_t'] || 0), isProminent, pin_size
co2Columns(total) ==
    LET totalCO2 == IF total.t = "undef" \/ (total.t = "num" /\ total.v = 0)
                    THEN Num(0) ELSE parseFloat(total)
        isProminent == totalCO2.t = "num" /\ totalCO2.v > ProminentThreshold
    IN  [total_co2_t |-> totalCO2, is_prominent |-> isProminent,
         pin_size |-> IF isProminent THEN 4 ELSE 2]

\* the key parameter of the two upserts: `parseInt(properties.gkz) || null`
\* for voting districts, `properties.g_id || properties.G_ID` for boundaries
storedKey(step, key) ==
    IF step = "importUpdatedVotingDistricts"
    THEN IF key.t = "num" /\ key.v # 0 THEN key ELSE Undef
    ELSE IF key.t \in {"undef", "nan"} \/ (key.t = "num" /\ key.v = 0) THEN Undef
    ELSE key

(***************************************************************************)
(* State                                                                   *)
(***************************************************************************)
VARIABLES
    entry,                  \* the method invoked on the importer
    isProduction,           \* NODE_ENV === 'production'
    files,                  \* the source files on disk
    pc,                     \* the step in execution
    loc,                    \* the locals of the step in execution
    connected,              \* this.client is connected
    areaOfInterestBounds,   \* this.areaOfInterestBounds
    stats,                  \* this.stats
    tables,                 \* the rows of every destination table
    raised,                 \* the step whose exception left its method
    summaryPrinted,         \* printSummary has run
    exitCode,               \* the exit status of the process, -1 while it runs
    started,                \* history: the steps started, in order
    truncated,              \* history: the number of TRUNCATEs completed
    inserts,                \* history: the number of INSERTs issued
    filterChecks,           \* history: the number of area filter checks made
    geomIO,                 \* history: the last transformGeometry call
    fileLog,                \* history: how the handling of each file ended
    call,                   \* history: the last call of a helper method run alone
    simplifyIO,             \* history: the last vertex count test of a polygon importer
    eventLoop,              \* the pending promises and the async calls of a run
    client                  \* the browser client: its request cache and CO2 markers

vars ==
    <<entry, isProduction, files, pc, loc, connected, areaOfInterestBounds, stats,
      tables, raised, summaryPrinted, exitCode, started, truncated, inserts,
      filterChecks, geomIO, fileLog, call, simplifyIO, eventLoop, client>>

\* the methods importAllData awaits after connecting
StepMethods == {StepOrder[i] : i \in 2..Len(StepOrder)}

FreshLoc ==
    [fi |-> 1, open |-> FALSE, ri |-> 1, imported |-> 0, filtered |-> 0,
     skipped |-> 0, processed |-> 0, validGeometry |-> 0, combinedBounds |-> NoBounds]

NoCall == [input |-> NullGeometry, output |-> NullGeometry, tried |-> <<>>, called |-> FALSE]

\* no entry of requestCache for a key
NoEntry == [data |-> -1, timestamp |-> -1]

\* the browser client after construction: the clock in minutes, the version
\* of the CO2 source list on the server, the requestCache entry of
\* '/api/co2-sources-enhanced', the version the markers were built from (-1:
\* no markers), the handler that loads all layers, the handler that saves or
\* deletes a source, and what the last save or delete that succeeded wrote
\* and reloaded
FreshClient ==
    [now |-> 0, server |-> 0, cache |-> NoEntry, markers |-> -1,
     loader |-> [at |-> "idle", response |-> -1],
     writer |-> [at |-> "idle", response |-> -1, method |-> "none"],
     settled |-> [method |-> "none", wrote |-> -1, reloadedFrom |-> -1, cached |-> FALSE]]

\* the async calls of importAllData in order, client.end() of its finally
\* block last
Calls == StepOrder \o <<"finally">>

\* an async method that has not been called
NewTask ==
    [state |-> "new", fi |-> 1, open |-> FALSE, ri |-> 1, have |-> FALSE,
     waits |-> "none", failed |-> FALSE]

\* nothing called, no promise pending
FreshEventLoop ==
    [at |-> 1, suspended |-> FALSE, queries |-> 0, reads |-> 0,
     tasks |-> [i \in 1..Len(Calls) |-> NewTask]]

\* no geometry has reached the vertex count test of a polygon importer
NoSimplify ==
    [checked |-> FALSE, step |-> "none", input |-> NullGeometry, complexity |-> 0,
     called |-> FALSE, output |-> NullGeometry, stored |-> NullGeometry]

\* no helper method has been called on its own
NoHelperCall == [fn |-> "none", args |-> <<>>, result |-> FALSE]

\* the candidates tried for a geometry that is a single leaf
TriedFor(geometry) ==
    IF geometry = NullGeometry \/ isWGS84(geometry) \/ ReadThrows(geometry.coordinates)
       \/ IsArray(First(geometry.coordinates))
    THEN <<>>
    ELSE transformLeaf(geometry.coordinates).tried

CallOf(geometry) ==
    [input |-> geometry, output |-> transformGeometry(geometry),
     tried |-> TriedFor(geometry), called |-> TRUE]

(***************************************************************************)
(* Initial states.  The script runs importAllData on a new importer; the   *)
(* step methods are also run one at a time on a connected importer whose   *)
(* bounds were loaded before.                                              *)
(***************************************************************************)
InitCommon ==
    /\ isProduction \in BOOLEAN
    /\ loc = FreshLoc
    /\ stats = InitialStats
    /\ raised = "none"
    /\ summaryPrinted = FALSE
    /\ exitCode = -1
    /\ truncated = 0
    /\ inserts = 0
    /\ filterChecks = 0
    /\ geomIO = NoCall
    /\ fileLog = <<>>
    /\ call = NoHelperCall
    /\ simplifyIO = NoSimplify
    /\ client = FreshClient

\* the files of a whole run: each file a step reads is missing or holds records
RunFiles ==
    {[f \in AllFiles |->
        CASE f = "salzburg.shp" -> a[1]
          [] f = "upper_austria.shp" -> a[2]
          [] f = "sal_aus_communes.shp" -> b
          [] f = "updated_commune.shp" -> b
          [] f = "CO2 sources.xlsx" -> c
          [] f = "LandfiilsDeponien.csv" -> l
          [] f = "Gravel pits  stone quarries.csv.csv" -> l
          [] f = "Wastewater treatment plants.csv" -> w
          [] f = "Gas Storage Facilities.shp" -> FileWith(<<fD>>)
          [] f = "salzburg_primary_roads.shp" -> FileWith(<<fA>>)
          [] OTHER -> MissingFile] :
        a \in {<<MissingFile, MissingFile>>, <<FileWith(<<areaSalzburg>>), MissingFile>>,
               <<UnreadableFile, FileWith(<<areaUpperAustria>>)>>,
               <<FileWith(<<areaSalzburg>>), FileWith(<<areaUpperAustria>>)>>},
        b \in {MissingFile, FileWith(<<fA, fD>>)},
        c \in {MissingFile, UnreadableFile, FileWith(<<rA, rC, rA>>)},
        l \in {MissingFile, FileWith(<<rA>>)},
        w \in {MissingFile, FileWith(<<rA>>)}}

\* the tables as the database setup creates them, and as an earlier run left them
EmptyTables == [t \in Tables |-> <<>>]
PreviousRow == [id |-> 99, file |-> "previous run", key |-> Num(10),
                geom |-> Geometry("Point", Pair(130, 470)), data |-> NoVotingColumns]
LeftoverTables ==
    [t \in Tables |->
        IF t \in {"co2_sources", "voting_districts", "highways"} THEN <<PreviousRow>> ELSE <<>>]

InitRun ==
    /\ entry = "importAllData"
    /\ files \in RunFiles
    /\ tables \in {EmptyTables, LeftoverTables}
    /\ pc = "connect"
    /\ connected = FALSE
    /\ areaOfInterestBounds = NoBounds
    /\ started = <<"connect">>

\* features at and just above the vertex count at which a polygon importer
\* simplifies
LargeLists(step) ==
    {<<f>> : f \in {Large(simplifyThreshold(step)), Large(simplifyThreshold(step) + 1),
                    LargeBroken(simplifyThreshold(step) + 1)}}

\* the files of one step run on its own: one of its files is drawn from the
\* record lists, the file after it is missing, unreadable or a single record
ListsOf(step) ==
    IF step = "importCO2Sources" THEN RowLists \cup SourceLists
    ELSE IF step \in CsvImporters THEN RowLists
    ELSE IF step = "importUpdatedVotingDistricts" THEN FeatureLists \cup DistrictLists
    ELSE IF step \in PolygonImporters THEN FeatureLists \cup LargeLists(step)
    ELSE FeatureLists
SecondOf(step) ==
    {MissingFile, UnreadableFile, FileWith(IF step \in CsvImporters THEN <<rA>> ELSE <<fA>>)}
MaxVariedFile == 4

UnitFiles(step) ==
    LET fs == FilesOf(step)
    IN  IF fs = <<>> THEN {[f \in AllFiles |-> MissingFile]}
        ELSE {[f \in AllFiles |->
                 IF f = fs[k] THEN FileWith(list)
                 ELSE IF k < Len(fs) /\ f = fs[k + 1] THEN second
                 ELSE MissingFile] :
                 k \in 1..Min(Len(fs), MaxVariedFile), list \in ListsOf(step),
                 second \in SecondOf(step)}

InitUnit ==
    /\ entry \in StepMethods
    /\ files \in UnitFiles(entry)
    /\ tables \in IF entry = "clearExistingData" THEN {EmptyTables, LeftoverTables}
                   ELSE {EmptyTables}
    /\ pc = entry
    /\ connected = TRUE
    /\ areaOfInterestBounds \in {NoBounds, AreaBox}
    /\ started = <<entry>>

\* the importers that stop at maxFeatures records of a file
CappedImporters == PolygonImporters \cup TransportImporters

\* the capped importers run over a file longer than their production cap
LongFileImporters == {"importRailways", "importRoads", "importConservationAreasOptimized"}

\* a feature without geometry and without any attribute the importers read
Bare(id) == [id |-> id, key |-> Undef, geometry |-> NullGeometry]

\* a file of n features of which the first and the last are inside AreaBox and
\* the others have no geometry
LongList(n) ==
    [i \in 1..n |-> IF i = 1 \/ i = n THEN Feature(i, Num(i), fA.geometry) ELSE Bare(i)]

\* one capped step run on its own, in production, over a first file one
\* record longer than its cap
InitCapped ==
    /\ entry \in LongFileImporters
    /\ isProduction
    /\ files = [f \in AllFiles |->
                  IF f = FilesOf(entry)[1]
                  THEN FileWith(LongList(maxFeatures(entry, TRUE) + 1))
                  ELSE MissingFile]
    /\ tables = EmptyTables
    /\ pc = entry
    /\ connected = TRUE
    /\ areaOfInterestBounds = AreaBox
    /\ started = <<entry>>

\* the helper methods of the importer, each also called on its own
HelperMethods ==
    {"transformGeometry", "isValidGeoJSON", "isWithinAreaBounds", "boundsIntersectArea",
     "getVotingColor", "colorDistrict"}

InitHelper ==
    /\ entry \in HelperMethods
    /\ files = [f \in AllFiles |-> MissingFile]
    /\ tables = EmptyTables
    /\ pc = entry
    /\ connected = TRUE
    /\ areaOfInterestBounds \in {NoBounds, AreaBox}
    /\ started = <<entry>>

Init ==
    /\ InitCommon
    /\ eventLoop = FreshEventLoop
    /\ (InitRun \/ InitUnit \/ InitCapped \/ InitHelper)

(***************************************************************************)
(* importAllData, src/unnamed/part_002:58-90, and the script's main,       *)
(* src/unnamed/part_002:1253-1257                                          *)
(***************************************************************************)
\* where control goes when a step returns
NextStepOf(step) ==
    IF entry # "importAllData" THEN "done"
    ELSE IF step = StepOrder[Len(StepOrder)] THEN "finally"
    ELSE StepOrder[IndexOf(StepOrder, step) + 1]

\* a step returns: the next awaited call starts
Return ==
    LET next == NextStepOf(pc)
    IN  /\ pc' = next
        /\ loc' = FreshLoc
        /\ started' = IF next \in StepMethods THEN Append(started, next) ELSE started

\* an exception leaves the step: importAllData's catch block, or the caller
Raise ==
    /\ raised' = pc
    /\ pc' = IF entry = "importAllData" THEN "catch" ELSE "done"
    /\ loc' = FreshLoc
    /\ started' = started

\* await this.client.connect()
Connect ==
    /\ pc = "connect"
    /\ \/ /\ connected' = TRUE
          /\ Return
          /\ UNCHANGED raised
       \/ /\ Raise
          /\ UNCHANGED connected
    /\ UNCHANGED <<client, eventLoop, simplifyIO, call, entry, isProduction, files, areaOfInterestBounds, stats, tables,
                   summaryPrinted, exitCode, truncated, inserts, filterChecks,
                   geomIO, fileLog>>

\* checkDataDirectories: logs only
CheckDataDirectories ==
    /\ pc = "checkDataDirectories"
    /\ Return
    /\ UNCHANGED <<client, eventLoop, simplifyIO, call, entry, isProduction, files, connected, areaOfInterestBounds, stats,
                   tables, raised, summaryPrinted, exitCode, truncated, inserts,
                   filterChecks, geomIO, fileLog>>

\* the catch block of importAllData
Catch ==
    /\ pc = "catch"
    /\ stats' = [stats EXCEPT !.errors = @ + 1]
    /\ pc' = "finally"
    /\ UNCHANGED <<client, eventLoop, simplifyIO, call, entry, isProduction, files, loc, connected, areaOfInterestBounds,
                   tables, raised, summaryPrinted, exitCode, started, truncated,
                   inserts, filterChecks, geomIO, fileLog>>

\* the finally block of importAllData: await this.client.end()
Finally ==
    /\ pc = "finally"
    /\ connected' = FALSE
    /\ pc' = "exit"
    /\ UNCHANGED <<client, eventLoop, simplifyIO, call, entry, isProduction, files, loc, areaOfInterestBounds, stats,
                   tables, raised, summaryPrinted, exitCode, started, truncated,
                   inserts, filterChecks, geomIO, fileLog>>

\* importer.importAllData().catch(console.error): the promise of importAllData
\* is fulfilled, nothing sets an exit code, the process ends with status 0
ProcessExit ==
    /\ pc = "exit"
    /\ exitCode' = 0
    /\ pc' = "done"
    /\ UNCHANGED <<client, eventLoop, simplifyIO, call, entry, isProduction, files, loc, connected, areaOfInterestBounds,
                   stats, tables, raised, summaryPrinted, started, truncated, inserts,
                   filterChecks, geomIO, fileLog>>

(***************************************************************************)
(* loadAreaBounds, src/unnamed/part_002:112-156                            *)
(***************************************************************************)
\* the forEach over the features of one area file: the combined box after
\* feature i and those after it; stops where transformGeometry or turf raises
RECURSIVE widen(_, _, _)
widen(features, i, combined) ==
    IF i > Len(features) THEN combined
    ELSE LET geometry == transformGeometry(features[i].geometry)
         IN  IF geometry = Thrown THEN combined
             ELSE IF ~isValidGeoJSON(geometry) THEN widen(features, i + 1, combined)
             ELSE IF geometry.type \notin GeometryTypes THEN combined
             ELSE LET bounds == bbox(geometry)
                  IN  widen(features, i + 1,
                            IF combined = NoBounds THEN bounds
                            ELSE <<Min(combined[1], bounds[1]), Min(combined[2], bounds[2]),
                                   Max(combined[3], bounds[3]), Max(combined[4], bounds[4])>>)

\* one iteration of the loop over areaFiles
LoadAreaFile ==
    /\ pc = "loadAreaBounds"
    /\ loc.fi <= Len(FilesOf(pc))
    /\ LET file == files[FilesOf(pc)[loc.fi]]
       IN  loc' = [loc EXCEPT
                !.fi = @ + 1,
                !.combinedBounds =
                    IF file.status = "ok" THEN widen(file.records, 1, @) ELSE @]
    /\ UNCHANGED <<client, eventLoop, simplifyIO, call, entry, isProduction, files, pc, connected, areaOfInterestBounds,
                   stats, tables, raised, summaryPrinted, exitCode, started, truncated,
                   inserts, filterChecks, geomIO, fileLog>>

\* this.areaOfInterestBounds = combinedBounds
LoadAreaBoundsDone ==
    /\ pc = "loadAreaBounds"
    /\ loc.fi > Len(FilesOf(pc))
    /\ areaOfInterestBounds' = loc.combinedBounds
    /\ Return
    /\ UNCHANGED <<client, eventLoop, simplifyIO, call, entry, isProduction, files, connected, stats, tables, raised,
                   summaryPrinted, exitCode, truncated, inserts, filterChecks,
                   geomIO, fileLog>>

(***************************************************************************)
(* clearExistingData, src/unnamed/part_002:176-194                         *)
(***************************************************************************)
\* one iteration: TRUNCATE TABLE ... succeeds, or fails and is logged
TruncateTable ==
    /\ pc = "clearExistingData"
    /\ loc.fi <= Len(ClearTables)
    /\ \/ tables' = [tables EXCEPT ![ClearTables[loc.fi]] = <<>>]
       \/ tables' = tables
    /\ loc' = [loc EXCEPT !.fi = @ + 1]
    /\ truncated' = truncated + 1
    /\ UNCHANGED <<client, eventLoop, simplifyIO, call, entry, isProduction, files, pc, connected, areaOfInterestBounds,
                   stats, raised, summaryPrinted, exitCode, started, inserts,
                   filterChecks, geomIO, fileLog>>

ClearExistingDataDone ==
    /\ pc = "clearExistingData"
    /\ loc.fi > Len(ClearTables)
    /\ Return
    /\ UNCHANGED <<client, eventLoop, simplifyIO, call, entry, isProduction, files, connected, areaOfInterestBounds, stats,
                   tables, raised, summaryPrinted, exitCode, truncated, inserts,
                   filterChecks, geomIO, fileLog>>

(***************************************************************************)
(* The importers: the handling of one source file                          *)
(***************************************************************************)
CurFile == FilesOf(pc)[loc.fi]
CurRecords == files[CurFile].records
CurTable == TableOf(pc, CurFile)

\* a report of how the handling of the current file ended; handled counts the
\* records the loop has taken up
Report(outcome, handled) ==
    [step |-> pc, file |-> CurFile, outcome |-> outcome,
     records |-> Len(CurRecords), handled |-> handled]

\* the loop goes on with the next record
NextRecord(l) == [l EXCEPT !.ri = @ + 1]

\* control leaves the current file: the locals of the next iteration
NextFile == [FreshLoc EXCEPT !.fi = loc.fi + 1]

InFile == pc \in Importers /\ loc.open /\ loc.ri <= Len(CurRecords)
AtFile == pc \in Importers /\ ~loc.open /\ loc.fi <= Len(FilesOf(pc))

\* importWastewaterPlants calls fs.existsExists, which is not a function of
\* fs: the TypeError is raised outside its try block
WastewaterExistsCheck ==
    /\ AtFile
    /\ pc = "importWastewaterPlants"
    /\ Raise
    /\ fileLog' = Append(fileLog, Report("raised", 0))
    /\ UNCHANGED <<client, eventLoop, simplifyIO, call, entry, isProduction, files, connected, areaOfInterestBounds, stats,
                   tables, summaryPrinted, exitCode, truncated, inserts, filterChecks,
                   geomIO>>

\* !fs.existsSync(file): return, or continue with the next file
SkipMissingFile ==
    /\ AtFile
    /\ pc # "importWastewaterPlants"
    /\ files[CurFile].status = "missing"
    /\ loc' = NextFile
    /\ fileLog' = Append(fileLog, Report("missing", 0))
    /\ UNCHANGED <<client, eventLoop, simplifyIO, call, entry, isProduction, files, pc, connected, areaOfInterestBounds,
                   stats, tables, raised, summaryPrinted, exitCode, started, truncated,
                   inserts, filterChecks, geomIO>>

\* reading or opening the file raises inside the try block of the file
ReadFileFails ==
    /\ AtFile
    /\ pc # "importWastewaterPlants"
    /\ files[CurFile].status = "unreadable"
    /\ loc' = NextFile
    /\ fileLog' = Append(fileLog, Report("unreadable", 0))
    /\ UNCHANGED <<client, eventLoop, simplifyIO, call, entry, isProduction, files, pc, connected, areaOfInterestBounds,
                   stats, tables, raised, summaryPrinted, exitCode, started, truncated,
                   inserts, filterChecks, geomIO>>

\* the file is read (shapefile.read, XLSX.readFile, csv) or opened
\* (shapefile.open): the loop over its records starts
OpenFile ==
    /\ AtFile
    /\ pc # "importWastewaterPlants"
    /\ files[CurFile].status = "ok"
    /\ loc' = [FreshLoc EXCEPT !.fi = loc.fi, !.open = TRUE]
    /\ UNCHANGED <<client, eventLoop, simplifyIO, call, entry, isProduction, files, pc, connected, areaOfInterestBounds,
                   stats, tables, raised, summaryPrinted, exitCode, started, truncated,
                   inserts, filterChecks, geomIO, fileLog>>

\* the catch block of the file: an exception of the loop ends the file
AbortFile ==
    /\ loc' = NextFile
    /\ fileLog' = Append(fileLog, Report("aborted", loc.ri))
    /\ UNCHANGED <<stats, tables>>

\* the importer has gone through its files and returns
ImporterDone ==
    /\ pc \in Importers
    /\ ~loc.open
    /\ loc.fi > Len(FilesOf(pc))
    /\ Return
    /\ UNCHANGED <<client, eventLoop, simplifyIO, call, entry, isProduction, files, connected, areaOfInterestBounds, stats,
                   tables, raised, summaryPrinted, exitCode, truncated, inserts,
                   filterChecks, geomIO, fileLog>>

\* INSERT of a row
NewRow(rec, geom) ==
    [id |-> rec.id, file |-> CurFile, key |-> rec.key, geom |-> geom,
     data |-> NoVotingColumns]
InsertInto(table, row) == tables' = [tables EXCEPT ![table] = Append(@, row)]

\* INSERT ... ON CONFLICT (key) DO UPDATE: a row with the same non-null key is
\* replaced in place, otherwise the row is added
Upsert(table, row) ==
    LET rows == tables[table]
        hit == {i \in 1..Len(rows) : row.key # Undef /\ rows[i].key = row.key}
    IN  tables' = [tables EXCEPT ![table] =
            IF hit = {} THEN Append(rows, row)
            ELSE [i \in 1..Len(rows) |-> IF i \in hit THEN row ELSE rows[i]]]

(***************************************************************************)
(* importCO2Sources, importLandfills, importGravelPits,                    *)
(* importWastewaterPlants: src/unnamed/part_002:334-552                    *)
(***************************************************************************)
CsvRow ==
    /\ InFile
    /\ pc \in CsvImporters
    /\ LET row == CurRecords[loc.ri]
           longitude == parseFloat(row.lon)
           latitude == parseFloat(row.lat)
           coords == Arr(<<longitude, latitude>>)
       IN  IF ~isValidWGS84(coords)
           THEN /\ loc' = NextRecord(loc)
                /\ UNCHANGED <<tables, inserts, filterChecks, fileLog>>
           ELSE IF ~isWithinAreaBounds(areaOfInterestBounds, longitude.v, latitude.v)
           THEN /\ loc' = NextRecord([loc EXCEPT !.filtered = @ + 1])
                /\ filterChecks' = filterChecks + 1
                /\ UNCHANGED <<tables, inserts, fileLog>>
           ELSE /\ filterChecks' = filterChecks + 1
                /\ inserts' = inserts + 1
                /\ \/ /\ InsertInto(CurTable,
                            IF pc = "importCO2Sources"
                            THEN [NewRow(row, Geometry("Point", coords)) EXCEPT
                                     !.data = co2Columns(row.total)]
                            ELSE NewRow(row, Geometry("Point", coords)))
                      /\ loc' = NextRecord([loc EXCEPT !.imported = @ + 1])
                      /\ UNCHANGED fileLog
                   \/ AbortFile
    /\ UNCHANGED <<client, eventLoop, simplifyIO, call, entry, isProduction, files, pc, connected, areaOfInterestBounds,
                   stats, raised, summaryPrinted, exitCode, started, truncated, geomIO>>

\* after the loop: this.stats.<layer> = imported; filteredOutByArea += filtered
CsvFileDone ==
    /\ pc \in CsvImporters
    /\ loc.open
    /\ loc.ri > Len(CurRecords)
    /\ stats' = [stats EXCEPT ![StatOf(CurTable)] = loc.imported,
                              !.filteredOutByArea = @ + loc.filtered]
    /\ loc' = NextFile
    /\ fileLog' = Append(fileLog, Report("completed", Len(CurRecords)))
    /\ UNCHANGED <<client, eventLoop, simplifyIO, call, entry, isProduction, files, pc, connected, areaOfInterestBounds,
                   tables, raised, summaryPrinted, exitCode, started, truncated,
                   inserts, filterChecks, geomIO>>

(***************************************************************************)
(* simplifyGeometry, src/unnamed/part_002:1126-1132.  turf.simplify is a   *)
(* library outside the repository: it is modelled by the removal of every  *)
(* vertex that repeats its predecessor in a line or ring, and it raises on *)
(* a geometry type it does not know and on a polygon ring of fewer than    *)
(* four positions.                                                         *)
(***************************************************************************)
RECURSIVE dropRepeats(_, _, _)
\* leaves[lo..hi] without the positions that repeat their predecessor
dropRepeats(leaves, lo, hi) ==
    IF lo > hi THEN <<>>
    ELSE IF lo = hi
    THEN IF lo > 1 /\ leaves[lo] = leaves[lo - 1] THEN <<>> ELSE <<leaves[lo]>>
    ELSE dropRepeats(leaves, lo, (lo + hi) \div 2)
            \o dropRepeats(leaves, ((lo + hi) \div 2) + 1, hi)

RECURSIVE simplifyCoords(_)
simplifyCoords(coords) ==
    IF ~IsArray(First(coords)) THEN coords
    ELSE IF IsArray(First(First(coords)))
    THEN Arr([i \in 1..Len(coords.v) |-> simplifyCoords(coords.v[i])])
    ELSE Arr(dropRepeats(coords.v, 1, Len(coords.v)))

\* the rings of a Polygon or MultiPolygon
Rings(geometry) ==
    IF geometry.type = "Polygon" THEN geometry.coordinates.v
    ELSE IF geometry.type = "MultiPolygon"
    THEN LET polygons == geometry.coordinates.v
             RECURSIVE Collect(_)
             Collect(i) == IF i > Len(polygons) THEN <<>>
                           ELSE polygons[i].v \o Collect(i + 1)
         IN  Collect(1)
    ELSE <<>>

\* turf.simplify(turf.feature(geometry), {tolerance}) raises
turfRaises(geometry) ==
    \/ geometry.type \notin GeometryTypes
    \/ \E i \in 1..Len(Rings(geometry)) : Len(Rings(geometry)[i].v) < 4

\* A method without the catch block; not the method of the source.
simplifyGeometryUncaught(geometry) ==
    IF turfRaises(geometry) THEN Thrown
    ELSE [geometry EXCEPT !.coordinates = simplifyCoords(@)]

\* try { return turf.simplify(...).geometry } catch (error) { return geometry }
simplifyGeometry(geometry) ==
    IF turfRaises(geometry) THEN geometry
    ELSE [geometry EXCEPT !.coordinates = simplifyCoords(@)]

(***************************************************************************)
(* importBoundaries, src/unnamed/part_002:196-233                          *)
(***************************************************************************)
BoundaryFeature ==
    /\ InFile
    /\ pc = "importBoundaries"
    /\ LET feature == CurRecords[loc.ri]
           geometry == transformGeometry(feature.geometry)
       IN  /\ geomIO' = CallOf(feature.geometry)
           /\ IF geometry = Thrown
              THEN AbortFile /\ UNCHANGED inserts
              ELSE IF ~isValidGeoJSON(geometry)
              THEN /\ loc' = NextRecord(loc)
                   /\ UNCHANGED <<tables, inserts, fileLog>>
              ELSE /\ inserts' = inserts + 1
                   /\ \/ /\ Upsert(CurTable, [NewRow(feature, geometry) EXCEPT
                                      !.key = storedKey(pc, feature.key)])
                         /\ loc' = NextRecord([loc EXCEPT !.processed = @ + 1])
                         /\ UNCHANGED fileLog
                      \/ AbortFile
    /\ UNCHANGED <<client, eventLoop, simplifyIO, call, entry, isProduction, files, pc, connected, areaOfInterestBounds,
                   stats, raised, summaryPrinted, exitCode, started, truncated,
                   filterChecks>>

BoundaryFileDone ==
    /\ pc = "importBoundaries"
    /\ loc.open
    /\ loc.ri > Len(CurRecords)
    /\ loc' = NextFile
    /\ fileLog' = Append(fileLog, Report("completed", Len(CurRecords)))
    /\ UNCHANGED <<client, eventLoop, simplifyIO, call, entry, isProduction, files, pc, connected, areaOfInterestBounds,
                   stats, tables, raised, summaryPrinted, exitCode, started, truncated,
                   inserts, filterChecks, geomIO>>

(***************************************************************************)
(* importUpdatedVotingDistricts, src/unnamed/part_002:235-323              *)
(***************************************************************************)
VotingFeature ==
    /\ InFile
    /\ pc = "importUpdatedVotingDistricts"
    /\ LET feature == CurRecords[loc.ri]
           geometry == transformGeometry(feature.geometry)
           counted == [loc EXCEPT !.processed = @ + 1]
       IN  /\ geomIO' = CallOf(feature.geometry)
           /\ IF geometry = Thrown
              THEN AbortFile /\ UNCHANGED inserts
              ELSE IF ~isValidGeoJSON(geometry)
              THEN /\ loc' = NextRecord(counted)
                   /\ UNCHANGED <<tables, inserts, fileLog>>
              ELSE /\ inserts' = inserts + 1
                   /\ \/ /\ Upsert(CurTable, [NewRow(feature, geometry) EXCEPT
                                      !.key = storedKey(pc, feature.key),
                                      !.data = votingColumns(feature.votes)])
                         /\ loc' = NextRecord([counted EXCEPT !.validGeometry = @ + 1])
                         /\ UNCHANGED fileLog
                      \/ AbortFile
    /\ UNCHANGED <<client, eventLoop, simplifyIO, call, entry, isProduction, files, pc, connected, areaOfInterestBounds,
                   stats, raised, summaryPrinted, exitCode, started, truncated,
                   filterChecks>>

\* after the loop: this.stats.votingDistricts = validGeometry
VotingFileDone ==
    /\ pc = "importUpdatedVotingDistricts"
    /\ loc.open
    /\ loc.ri > Len(CurRecords)
    /\ stats' = [stats EXCEPT !.votingDistricts = loc.validGeometry]
    /\ loc' = NextFile
    /\ fileLog' = Append(fileLog, Report("completed", Len(CurRecords)))
    /\ UNCHANGED <<client, eventLoop, simplifyIO, call, entry, isProduction, files, pc, connected, areaOfInterestBounds,
                   tables, raised, summaryPrinted, exitCode, started, truncated,
                   inserts, filterChecks, geomIO>>

(***************************************************************************)
(* importGasInfrastructure, src/unnamed/part_002:559-673                   *)
(***************************************************************************)
GasFeature ==
    /\ InFile
    /\ pc = "importGasInfrastructure"
    /\ LET feature == CurRecords[loc.ri]
           geometry == transformGeometry(feature.geometry)
           coords == extractCoordinates(geometry)
           counted == [stats EXCEPT ![StatOf(CurTable)] = @ + 1]
           inserted == NextRecord([loc EXCEPT !.imported = @ + 1])
           filteredOut == NextRecord([loc EXCEPT !.filtered = @ + 1])
       IN  /\ geomIO' = CallOf(feature.geometry)
           /\ IF geometry = Thrown
              THEN AbortFile /\ UNCHANGED <<inserts, filterChecks>>
              ELSE IF CurTable = "gas_pipelines"
              THEN \* gasFile.type === 'line'
                   IF ~isValidGeoJSON(geometry)
                   THEN /\ loc' = NextRecord(loc)
                        /\ UNCHANGED <<stats, tables, inserts, filterChecks, fileLog>>
                   ELSE IF /\ areaOfInterestBounds # NoBounds
                           /\ ~boundsIntersectArea(areaOfInterestBounds, getGeometryBounds(geometry))
                   THEN /\ loc' = filteredOut
                        /\ filterChecks' = filterChecks + 1
                        /\ UNCHANGED <<stats, tables, inserts, fileLog>>
                   ELSE /\ filterChecks' =
                              filterChecks + (IF areaOfInterestBounds # NoBounds THEN 1 ELSE 0)
                        /\ inserts' = inserts + 1
                        /\ \/ /\ InsertInto(CurTable, NewRow(feature, geometry))
                              /\ stats' = counted
                              /\ loc' = inserted
                              /\ UNCHANGED fileLog
                           \/ AbortFile
              ELSE \* gasFile.type === 'point'
                   IF ~isValidWGS84(coords)
                   THEN /\ loc' = NextRecord(loc)
                        /\ UNCHANGED <<stats, tables, inserts, filterChecks, fileLog>>
                   ELSE IF ~isWithinAreaBounds(areaOfInterestBounds, coords.v[1].v, coords.v[2].v)
                   THEN /\ loc' = filteredOut
                        /\ filterChecks' = filterChecks + 1
                        /\ UNCHANGED <<stats, tables, inserts, fileLog>>
                   ELSE /\ filterChecks' = filterChecks + 1
                        /\ inserts' = inserts + 1
                        /\ \/ /\ InsertInto(CurTable, NewRow(feature, Geometry("Point", coords)))
                              /\ stats' = counted
                              /\ loc' = inserted
                              /\ UNCHANGED fileLog
                           \/ AbortFile
    /\ UNCHANGED <<client, eventLoop, simplifyIO, call, entry, isProduction, files, pc, connected, areaOfInterestBounds,
                   raised, summaryPrinted, exitCode, started, truncated>>

\* after the loop: this.stats.filteredOutByArea += filtered
GasFileDone ==
    /\ pc = "importGasInfrastructure"
    /\ loc.open
    /\ loc.ri > Len(CurRecords)
    /\ stats' = [stats EXCEPT !.filteredOutByArea = @ + loc.filtered]
    /\ loc' = NextFile
    /\ fileLog' = Append(fileLog, Report("completed", Len(CurRecords)))
    /\ UNCHANGED <<client, eventLoop, simplifyIO, call, entry, isProduction, files, pc, connected, areaOfInterestBounds,
                   tables, raised, summaryPrinted, exitCode, started, truncated,
                   inserts, filterChecks, geomIO>>

(***************************************************************************)
(* importGroundwaterAreasOptimized, importConservationAreasOptimized,      *)
(* importResidentialAreasOptimized: src/unnamed/part_002:688-917           *)
(***************************************************************************)
\* result.done || processed >= maxFeatures
PolygonLoopEnds ==
    loc.ri > Len(CurRecords) \/ loc.processed >= maxFeatures(pc, isProduction)

PolygonFeature ==
    /\ pc \in PolygonImporters
    /\ loc.open
    /\ ~PolygonLoopEnds
    /\ LET feature == CurRecords[loc.ri]
           geometry == transformGeometry(feature.geometry)
           counted == NextRecord([loc EXCEPT !.processed = @ + 1])
           skip == [counted EXCEPT !.skipped = @ + 1]
           complexity == getGeometryComplexity(geometry)
           simplifiedGeom ==
               IF complexity > simplifyThreshold(pc)
               THEN simplifyGeometry(geometry)
               ELSE geometry
           tested == [checked |-> TRUE, step |-> pc, input |-> geometry,
                      complexity |-> complexity,
                      called |-> complexity > simplifyThreshold(pc),
                      output |-> simplifiedGeom, stored |-> NullGeometry]
       IN  /\ geomIO' = CallOf(feature.geometry)
           /\ IF geometry = Thrown \/ ~isValidGeoJSON(geometry)
              THEN /\ loc' = skip
                   /\ UNCHANGED <<tables, inserts, filterChecks, simplifyIO>>
              ELSE IF ~boundsIntersectArea(areaOfInterestBounds, getGeometryBounds(geometry))
              THEN /\ loc' = skip
                   /\ filterChecks' = filterChecks + 1
                   /\ UNCHANGED <<tables, inserts, simplifyIO>>
              ELSE IF simplifiedGeom = Thrown
              THEN /\ loc' = skip
                   /\ filterChecks' = filterChecks + 1
                   /\ simplifyIO' = tested
                   /\ UNCHANGED <<tables, inserts>>
              ELSE /\ filterChecks' = filterChecks + 1
                   /\ inserts' = inserts + 1
                   /\ simplifyIO' = [tested EXCEPT !.stored = simplifiedGeom]
                   /\ \/ /\ InsertInto(CurTable, NewRow(feature, simplifiedGeom))
                         /\ loc' = [counted EXCEPT !.imported = @ + 1]
                      \/ /\ loc' = skip
                         /\ UNCHANGED tables
    /\ UNCHANGED <<client, eventLoop, call, entry, isProduction, files, pc, connected,
                   areaOfInterestBounds, stats, raised, summaryPrinted, exitCode, started,
                   truncated, fileLog>>

\* after the loop: this.stats.<layer> += imported; filteredOutByArea += skipped
PolygonFileDone ==
    /\ pc \in PolygonImporters
    /\ loc.open
    /\ PolygonLoopEnds
    /\ stats' = [stats EXCEPT ![StatOf(CurTable)] = @ + loc.imported,
                              !.filteredOutByArea = @ + loc.skipped]
    /\ loc' = NextFile
    /\ fileLog' = Append(fileLog, Report("completed", loc.processed))
    /\ UNCHANGED <<client, eventLoop, simplifyIO, call, entry, isProduction, files, pc, connected, areaOfInterestBounds,
                   tables, raised, summaryPrinted, exitCode, started, truncated,
                   inserts, filterChecks, geomIO>>

(***************************************************************************)
(* importRoads, importRailways: src/unnamed/part_002:926-1038              *)
(***************************************************************************)
\* Math.min(features.length, maxFeatures)
TransportLimit == Min(Len(CurRecords), maxFeatures(pc, isProduction))

TransportFeature ==
    /\ pc \in TransportImporters
    /\ loc.open
    /\ loc.ri <= TransportLimit
    /\ LET feature == CurRecords[loc.ri]
           geometry == transformGeometry(feature.geometry)
       IN  /\ geomIO' = CallOf(feature.geometry)
           /\ IF geometry = Thrown
              THEN AbortFile /\ UNCHANGED <<inserts, filterChecks>>
              ELSE IF ~isValidGeoJSON(geometry)
              THEN /\ loc' = NextRecord(loc)
                   /\ UNCHANGED <<tables, inserts, filterChecks, fileLog>>
              ELSE IF /\ areaOfInterestBounds # NoBounds
                      /\ ~boundsIntersectArea(areaOfInterestBounds, getGeometryBounds(geometry))
              THEN /\ loc' = NextRecord([loc EXCEPT !.filtered = @ + 1])
                   /\ filterChecks' = filterChecks + 1
                   /\ UNCHANGED <<tables, inserts, fileLog>>
              ELSE /\ filterChecks' =
                         filterChecks + (IF areaOfInterestBounds # NoBounds THEN 1 ELSE 0)
                   /\ inserts' = inserts + 1
                   /\ \/ /\ InsertInto(CurTable, NewRow(feature, geometry))
                         /\ loc' = NextRecord([loc EXCEPT !.imported = @ + 1])
                         /\ UNCHANGED fileLog
                      \/ AbortFile
    /\ UNCHANGED <<client, eventLoop, simplifyIO, call, entry, isProduction, files, pc, connected, areaOfInterestBounds,
                   stats, raised, summaryPrinted, exitCode, started, truncated>>

\* after the loop: this.stats.<layer> += imported; filteredOutByArea += filtered
TransportFileDone ==
    /\ pc \in TransportImporters
    /\ loc.open
    /\ loc.ri > TransportLimit
    /\ stats' = [stats EXCEPT ![StatOf(CurTable)] = @ + loc.imported,
                              !.filteredOutByArea = @ + loc.filtered]
    /\ loc' = NextFile
    /\ fileLog' = Append(fileLog, Report("completed", loc.ri - 1))
    /\ UNCHANGED <<client, eventLoop, simplifyIO, call, entry, isProduction, files, pc, connected, areaOfInterestBounds,
                   tables, raised, summaryPrinted, exitCode, started, truncated,
                   inserts, filterChecks, geomIO>>

(***************************************************************************)
(* createMaterializedViews, updateGeometryValidation, printSummary:        *)
(* src/unnamed/part_002:1040-1102, 1222-1250                               *)
(***************************************************************************)
\* the statements run inside a try block; a failure is logged
CreateMaterializedViews ==
    /\ pc = "createMaterializedViews"
    /\ Return
    /\ UNCHANGED <<client, eventLoop, simplifyIO, call, entry, isProduction, files, connected, areaOfInterestBounds, stats,
                   tables, raised, summaryPrinted, exitCode, truncated, inserts,
                   filterChecks, geomIO, fileLog>>

UpdateGeometryValidation ==
    /\ pc = "updateGeometryValidation"
    /\ Return
    /\ UNCHANGED <<client, eventLoop, simplifyIO, call, entry, isProduction, files, connected, areaOfInterestBounds, stats,
                   tables, raised, summaryPrinted, exitCode, truncated, inserts,
                   filterChecks, geomIO, fileLog>>

\* Object.values(this.stats).reduce((sum, val) => sum + val, 0)
RECURSIVE SumOver(_, _)
SumOver(counters, keys) ==
    IF keys = {} THEN 0
    ELSE LET k == CHOOSE x \in keys : TRUE
         IN  counters[k] + SumOver(counters, keys \ {k})

\* the 'Total Features Imported' of the summary
totalPrinted(counters) ==
    SumOver(counters, DOMAIN counters) - counters.filteredOutByArea - counters.errors

PrintSummary ==
    /\ pc = "printSummary"
    /\ summaryPrinted' = TRUE
    /\ Return
    /\ UNCHANGED <<client, eventLoop, simplifyIO, call, entry, isProduction, files, connected, areaOfInterestBounds, stats,
                   tables, raised, exitCode, truncated, inserts, filterChecks,
                   geomIO, fileLog>>

(***************************************************************************)
(* The helper methods called on their own                                  *)
(***************************************************************************)
\* geometries a caller can pass: null, members missing, empty and irregular
\* nests, leaves of every kind, and the geometries of the sample features
GeometryInputs ==
    {NullGeometry,
     Geometry("Polygon", Undef),
     Geometry("", Pair(130, 470)),
     Geometry("Point", Arr(<<>>)),
     Geometry("Polygon", Arr(<<Arr(<<>>)>>)),
     Geometry("Point", Num(5)),
     Geometry("Point", Arr(<<Num(130)>>)),
     Geometry("Point", Arr(<<Num(130), Num(470), Num(5)>>)),
     Geometry("Point", Arr(<<Infinity, Num(470)>>)),
     Geometry("Point", Arr(<<NotANumber, Num(470)>>)),
     Geometry("Point", Arr(<<Num(130), Undef>>)),
     Geometry("Point", Pair(2000, 470)),
     Geometry("LineString", Arr(<<Pair(130, 470), Num(5)>>)),
     Geometry("LineString", Arr(<<Pair(130, 470), Undef>>)),
     Geometry("LineString", Arr(<<Pair(400000, 400000), Undef>>)),
     Geometry("LineString", Arr(<<Pair(130, 470), Arr(<<Num(131), Num(471), Num(5)>>)>>)),
     Geometry("MultiPolygon", Arr(<<Arr(<<Arr(<<Pair(130, 470), Pair(131, 470),
                                              Pair(131, 471), Pair(130, 470)>>)>>)>>)),
     Geometry("MultiPolygon", Arr(<<Arr(<<Arr(<<Pair(130, 470), Pair(131, 470),
                                              Arr(<<NaN, Num(471)>>), Pair(130, 470)>>)>>)>>)),
     Geometry("MultiPolygon", Arr(<<Arr(<<Arr(<<Pair(400000, 400000), Pair(407500, 400000),
                                              Pair(407500, 411100), Pair(400000, 400000)>>)>>)>>))}
        \cup {f.geometry : f \in {fA, fB, fC, fD, fE, fF, fG, fH, fI, areaSalzburg}}

CallTransformGeometry ==
    /\ pc = "transformGeometry"
    /\ \E geometry \in GeometryInputs :
          /\ call' = [fn |-> pc, args |-> <<geometry>>, result |-> transformGeometry(geometry)]
          /\ geomIO' = CallOf(geometry)
    /\ pc' = "done"
    /\ UNCHANGED <<client, eventLoop, simplifyIO, entry, isProduction, files, loc, connected, areaOfInterestBounds,
                   stats, tables, raised, summaryPrinted, exitCode, started, truncated,
                   inserts, filterChecks, fileLog>>

CallIsValidGeoJSON ==
    /\ pc = "isValidGeoJSON"
    /\ \E geometry \in GeometryInputs :
          call' = [fn |-> pc, args |-> <<geometry>>, result |-> isValidGeoJSON(geometry)]
    /\ pc' = "done"
    /\ UNCHANGED <<client, eventLoop, simplifyIO, entry, isProduction, files, loc, connected, areaOfInterestBounds,
                   stats, tables, raised, summaryPrinted, exitCode, started, truncated,
                   inserts, filterChecks, geomIO, fileLog>>

\* longitudes and latitudes below, on, between, on and above the edges of AreaBox
LongitudeInputs == {119, 120, 135, 150, 151}
LatitudeInputs == {459, 460, 475, 490, 491}

CallIsWithinAreaBounds ==
    /\ pc = "isWithinAreaBounds"
    /\ \E longitude \in LongitudeInputs, latitude \in LatitudeInputs :
          call' = [fn |-> pc, args |-> <<longitude, latitude>>,
                   result |-> isWithinAreaBounds(areaOfInterestBounds, longitude, latitude)]
    /\ pc' = "done"
    /\ UNCHANGED <<client, eventLoop, simplifyIO, entry, isProduction, files, loc, connected, areaOfInterestBounds,
                   stats, tables, raised, summaryPrinted, exitCode, started, truncated,
                   inserts, filterChecks, geomIO, fileLog>>

\* boxes left of, touching, overlapping, inside, around and right of AreaBox
\* on each axis, and the unset box
BoxLongitudes == {100, 120, 135, 150, 170}
BoxLatitudes == {440, 460, 475, 490, 510}
BoxInputs ==
    {NoBounds} \cup
    {<<x1, y1, x2, y2>> : x1 \in BoxLongitudes, y1 \in BoxLatitudes,
                          x2 \in BoxLongitudes, y2 \in BoxLatitudes}

CallBoundsIntersectArea ==
    /\ pc = "boundsIntersectArea"
    /\ \E bounds \in BoxInputs :
          /\ bounds # NoBounds => (bounds[1] <= bounds[3] /\ bounds[2] <= bounds[4])
          /\ call' = [fn |-> pc, args |-> <<bounds>>,
                      result |-> boundsIntersectArea(areaOfInterestBounds, bounds)]
    /\ pc' = "done"
    /\ UNCHANGED <<client, eventLoop, simplifyIO, entry, isProduction, files, loc, connected, areaOfInterestBounds,
                   stats, tables, raised, summaryPrinted, exitCode, started, truncated,
                   inserts, filterChecks, geomIO, fileLog>>

\* the arguments of getVotingColor: the percentages around every threshold,
\* none, a negative one, and the values `!percentage` is true of
PercentInputs ==
    {Num(x) : x \in ThresholdPercents \cup {-100, 0, 3200}} \cup {NaN, Undef}

CallGetVotingColor ==
    /\ pc = "getVotingColor"
    /\ \E percentage \in PercentInputs :
          call' = [fn |-> pc, args |-> <<percentage>>, result |-> getVotingColor(percentage)]
    /\ pc' = "done"
    /\ UNCHANGED <<client, eventLoop, simplifyIO, entry, isProduction, files, loc, connected, areaOfInterestBounds,
                   stats, tables, raised, summaryPrinted, exitCode, started, truncated,
                   inserts, filterChecks, geomIO, fileLog>>

\* the values the importer stores in left_green_combined, and NULL
StoredPercents == {Num(x) : x \in ThresholdPercents \cup {-100, 0, 3200}} \cup {Undef}

\* the color of one district three times over: as the importer stores it, as
\* the materialized view computes it, as the browser computes it from the
\* district the API sends
ColorDistrict ==
    /\ pc = "colorDistrict"
    /\ \E left_green_combined \in StoredPercents, has_voting_data \in BOOLEAN :
          call' = [fn |-> pc, args |-> <<left_green_combined, has_voting_data>>,
                   result |->
                       [choropleth_color |->
                            choroplethColor(left_green_combined, has_voting_data),
                        computed_fill_color |->
                            computedFillColor(left_green_combined, has_voting_data),
                        browser |->
                            appGetVotingColor(NumericString(left_green_combined),
                                              has_voting_data)]]
    /\ pc' = "done"
    /\ UNCHANGED <<client, eventLoop, simplifyIO, entry, isProduction, files, loc, connected,
                   areaOfInterestBounds, stats, tables, raised, summaryPrinted, exitCode,
                   started, truncated, inserts, filterChecks, geomIO, fileLog>>

(***************************************************************************)
(* An upserting importer called again on the same files, the tables left   *)
(* as its earlier call filled them                                         *)
(***************************************************************************)
UpsertImporters == {"importBoundaries", "importUpdatedVotingDistricts"}
MaxImports == 2

ImportAgain ==
    /\ entry \in UpsertImporters
    /\ pc = "done"
    /\ Len(started) < MaxImports
    /\ pc' = entry
    /\ loc' = FreshLoc
    /\ started' = Append(started, entry)
    /\ UNCHANGED <<client, eventLoop, simplifyIO, call, entry, isProduction, files, connected, areaOfInterestBounds,
                   stats, tables, raised, summaryPrinted, exitCode, truncated, inserts,
                   filterChecks, geomIO, fileLog>>

(***************************************************************************)
(* The specification                                                       *)
(***************************************************************************)
Next ==
    \/ Connect
    \/ CheckDataDirectories
    \/ LoadAreaFile
    \/ LoadAreaBoundsDone
    \/ TruncateTable
    \/ ClearExistingDataDone
    \/ WastewaterExistsCheck
    \/ SkipMissingFile
    \/ ReadFileFails
    \/ OpenFile
    \/ ImporterDone
    \/ CsvRow
    \/ CsvFileDone
    \/ BoundaryFeature
    \/ BoundaryFileDone
    \/ VotingFeature
    \/ VotingFileDone
    \/ GasFeature
    \/ GasFileDone
    \/ PolygonFeature
    \/ PolygonFileDone
    \/ TransportFeature
    \/ TransportFileDone
    \/ CreateMaterializedViews
    \/ UpdateGeometryValidation
    \/ PrintSummary
    \/ Catch
    \/ Finally
    \/ ProcessExit
    \/ CallTransformGeometry
    \/ CallIsValidGeoJSON
    \/ CallIsWithinAreaBounds
    \/ CallBoundsIntersectArea
    \/ CallGetVotingColor
    \/ ColorDistrict
    \/ ImportAgain

Spec == Init /\ [][Next]_vars

(***************************************************************************)
(* Properties                                                              *)
(***************************************************************************)
\* the number of rows, in the tables of S, that were inserted from a file of F
RECURSIVE CountRows(_, _)
CountRows(S, F) ==
    IF S = {} THEN 0
    ELSE LET t == CHOOSE x \in S : TRUE
         IN  Cardinality({i \in 1..Len(tables[t]) : tables[t][i].file \in F})
                + CountRows(S \ {t}, F)

RowsFrom(file) == CountRows(Tables, {file})
\* the rows inserted since the initial state
RowsInserted == CountRows(Tables, AllFiles)

IsRun == entry = "importAllData"
RunEnded == IsRun /\ pc = "done"

\* C1: every run of importAllData whose connection succeeds reaches the
\* terminal step: all steps of the orchestrator are executed and printSummary
\* is called, whatever files exist and whichever records fail.
C1_RunReachesSummary ==
    (RunEnded /\ raised # "connect") => (started = StepOrder /\ summaryPrinted)

\* C2: in every importer, when the processing of record i of a file fails, the
\* failure is caught for that record alone and the records after it are still
\* processed: every file that was opened has had all its records handled.
C2_LaterRecordsStillProcessed ==
    \A i \in 1..Len(fileLog) :
        fileLog[i].outcome \in {"completed", "aborted"}
            => fileLog[i].handled = fileLog[i].records

\* C3: a file that is missing or cannot be read makes its importer insert
\* nothing for it and raise nothing to the orchestrator.
C3_MissingFileSkippedQuietly ==
    \A i \in 1..Len(fileLog) :
        files[fileLog[i].file].status # "ok"
            => /\ fileLog[i].outcome \in {"missing", "unreadable"}
               /\ RowsFrom(fileLog[i].file) = 0

\* C4: in a run, no area filter check is made before loadAreaBounds has
\* finished, no INSERT is issued before every TRUNCATE has completed, and the
\* steps start in the fixed order, one at a time.
C4_FixedOrder ==
    <<"connect", "checkDataDirectories", "loadAreaBounds", "clearExistingData",
      "importBoundaries", "importUpdatedVotingDistricts", "importCO2Sources",
      "importLandfills", "importGravelPits", "importWastewaterPlants",
      "importGasInfrastructure", "importGroundwaterAreasOptimized",
      "importConservationAreasOptimized", "importResidentialAreasOptimized",
      "importRoads", "importRailways", "createMaterializedViews",
      "updateGeometryValidation", "printSummary">>

C4_BoundsThenTruncateThenImport ==
    IsRun =>
        /\ Len(started) <= Len(C4_FixedOrder)
        /\ \A i \in 1..Len(started) : started[i] = C4_FixedOrder[i]
        /\ pc \in StepMethods => pc = started[Len(started)]
        /\ filterChecks > 0 => Len(started) > IndexOf(C4_FixedOrder, "loadAreaBounds")
        /\ inserts > 0 =>
              /\ truncated = Len(ClearTables)
              /\ Len(started) > IndexOf(C4_FixedOrder, "clearExistingData")

\* a run that has loaded bounds, truncated, filtered and inserted, and is in
\* its fourth importer
C4_Witness ==
    /\ IsRun
    /\ pc = "importGravelPits"
    /\ areaOfInterestBounds # NoBounds
    /\ filterChecks > 1
    /\ inserts > 2
    /\ Len(tables["co2_sources"]) > 1

\* C5: when the connection cannot be established, no truncate and no import
\* step is executed, and the run is reported by a non-zero exit status.
C5_ConnectFailureReported ==
    (RunEnded /\ raised = "connect")
        => (truncated = 0 /\ inserts = 0 /\ started = <<"connect">> /\ exitCode # 0)

\* C6: a file of the three features A (valid, inside the bounds), B (a
\* malformed coordinate) and C (valid, outside the bounds), in any order, ends
\* with 1 inserted row, the error counter at 1 and the filtered counter at 1
\* (importers with an area filter on shapefiles, no INSERT failing).
C6_Case ==
    /\ entry \in TransportImporters \cup PolygonImporters
    /\ pc = "done"
    /\ areaOfInterestBounds = AreaBox
    /\ inserts = RowsInserted

C6_OneRowOneErrorOneFiltered ==
    C6_Case =>
        \A f \in AllFiles :
            files[f].records \in Permutations3(fA, fB, fC)
                => /\ RowsFrom(f) = 1
                   /\ stats.errors = 1
                   /\ stats.filteredOutByArea = 1

\* the record of the source files a row was inserted from
SourceOf(row) ==
    LET rs == files[row.file].records
    IN  rs[CHOOSE i \in 1..Len(rs) : rs[i].id = row.id]

\* neither candidate gives valid WGS84 for some leaf of the geometry
NeitherCandidate(geometry) ==
    /\ geometry # NullGeometry
    /\ ~ReadThrows(geometry.coordinates)
    /\ LET ls == Leaves(geometry.coordinates)
       IN  \E i \in 1..Len(ls) :
              /\ ~isValidWGS84(ls[i])
              /\ ~isValidWGS84(tryTransform(ls[i], "EPSG:31287"))
              /\ ~isValidWGS84(tryTransform(ls[i], "EPSG:31259"))

\* C7: a record for which neither candidate reference system yields valid
\* WGS84 is skipped: no table holds a row for it.
C7_AmbiguousRecordNeverStored ==
    \A t \in Tables : \A i \in 1..Len(tables[t]) :
        tables[t][i].file \in AllFiles => ~NeitherCandidate(SourceOf(tables[t][i]).geometry)

\* C8: transformGeometry passes through or projects leaf by leaf: a leaf in
\* the WGS84 range is returned unchanged, a leaf out of it is projected,
\* whatever the other leaves are.
C8_LeafByLeaf ==
    (geomIO.called /\ geomIO.output \notin {NullGeometry, Thrown}) =>
        LET ins == Leaves(geomIO.input.coordinates)
            outs == Leaves(geomIO.output.coordinates)
        IN  /\ Len(outs) = Len(ins)
            /\ \A i \in 1..Len(ins) :
                  outs[i] = IF isValidWGS84(ins[i]) THEN ins[i]
                            ELSE transformLeaf(ins[i]).value

\* a transformGeometry call on a single coordinate pair out of the WGS84 range
C9_Case ==
    /\ geomIO.called
    /\ geomIO.input # NullGeometry
    /\ IsArray(geomIO.input.coordinates)
    /\ ~IsArray(First(geomIO.input.coordinates))
    /\ ~isValidWGS84(geomIO.input.coordinates)

\* C9: for a single coordinate pair out of the WGS84 range, a valid result of
\* the first candidate EPSG:31287 is the output and the second is not tried;
\* EPSG:31259 is tried exactly when the first result is invalid or the first
\* raised, and a valid second result is then the output.
C9_FirstCandidateThenSecond ==
    C9_Case =>
        LET c == geomIO.input.coordinates
            p1 == tryTransform(c, "EPSG:31287")
            p2 == tryTransform(c, "EPSG:31259")
        IN  /\ isValidWGS84(p1) =>
                  geomIO.output.coordinates = p1 /\ geomIO.tried = <<"EPSG:31287">>
            /\ ~isValidWGS84(p1) => geomIO.tried = <<"EPSG:31287", "EPSG:31259">>
            /\ (~isValidWGS84(p1) /\ isValidWGS84(p2)) => geomIO.output.coordinates = p2

\* the pair of fE, valid under the second candidate only, came out as the
\* second projection
C9_Witness ==
    /\ C9_Case
    /\ geomIO.input = fE.geometry
    /\ ~isValidWGS84(tryTransform(fE.geometry.coordinates, "EPSG:31287"))
    /\ geomIO.output.coordinates = Pair(-1799, 486)
    /\ \E t \in Tables : Len(tables[t]) > 0

\* C10: for a pair that is not valid WGS84 and for which both candidates give
\* a result that fails the validity check (or raise), transformGeometry
\* returns the original pair.
C10_OriginalWhenBothFail ==
    C9_Case =>
        LET c == geomIO.input.coordinates
        IN  (/\ ~isValidWGS84(tryTransform(c, "EPSG:31287"))
             /\ ~isValidWGS84(tryTransform(c, "EPSG:31259")))
                => geomIO.output.coordinates = c

\* C11: transformGeometry never raises, for any input.
C11_TransformNeverRaises ==
    /\ call.fn = "transformGeometry" => call.result # Thrown
    /\ geomIO.called => geomIO.output # Thrown

\* every item down to the leaves is an array, and every leaf holds exactly
\* two finite numbers
RECURSIVE EveryLeafFinitePair(_)
EveryLeafFinitePair(c) ==
    /\ IsArray(c)
    /\ Len(c.v) > 0
    /\ IF \A i \in 1..Len(c.v) : ~IsArray(c.v[i])
       THEN Len(c.v) = 2 /\ \A i \in 1..Len(c.v) : c.v[i].t = "num"
       ELSE \A i \in 1..Len(c.v) : IsArray(c.v[i]) /\ EveryLeafFinitePair(c.v[i])

\* C12: isValidGeoJSON(geometry) is true if and only if the geometry has a
\* type and coordinates in which every leaf is an array of exactly two finite
\* numbers, at any depth; it is false, and raises nothing, for every other input.
C12_TrueIffEveryLeafFinitePair ==
    call.fn = "isValidGeoJSON" =>
        LET geometry == call.args[1]
        IN  call.result = (/\ geometry # NullGeometry
                           /\ geometry.type # ""
                           /\ geometry.coordinates # Undef
                           /\ EveryLeafFinitePair(geometry.coordinates))

\* a leaf of three finite numbers, next to a valid leaf, was rejected
C12_Witness ==
    /\ call.fn = "isValidGeoJSON"
    /\ call.args[1] = Geometry("LineString",
                           Arr(<<Pair(130, 470), Arr(<<Num(131), Num(471), Num(5)>>)>>))
    /\ call.result = FALSE

\* loadAreaBounds has assigned this.areaOfInterestBounds
BoundsLoaded ==
    \/ entry = "loadAreaBounds" /\ pc = "done"
    \/ IsRun /\ Len(started) > IndexOf(StepOrder, "loadAreaBounds")

\* the bounding boxes of the valid features of the readable boundary sources
ValidFeatureBoxes ==
    LET areaFiles == FilesOf("loadAreaBounds")
    IN  {bbox(transformGeometry(files[areaFiles[k]].records[i].geometry)) :
            <<k, i>> \in {<<k, i>> \in (1..Len(areaFiles)) \X (1..3) :
                /\ files[areaFiles[k]].status = "ok"
                /\ i <= Len(files[areaFiles[k]].records)
                /\ isValidGeoJSON(
                      transformGeometry(files[areaFiles[k]].records[i].geometry))}}

\* C13: after loadAreaBounds the bounds are null if and only if no boundary
\* feature with valid geometry was read; otherwise they are the minima and
\* maxima over the boxes of all valid features of all readable sources.
C13_BoundsCoverValidFeatures ==
    BoundsLoaded =>
        LET boxes == ValidFeatureBoxes
        IN  IF boxes = {} THEN areaOfInterestBounds = NoBounds
            ELSE areaOfInterestBounds =
                    <<SetMin({b[1] : b \in boxes}), SetMin({b[2] : b \in boxes}),
                      SetMax({b[3] : b \in boxes}), SetMax({b[4] : b \in boxes})>>

\* C14: isWithinAreaBounds(lon, lat) is true if and only if the bounds are
\* unset or the point lies in the box, edges and corners included; the call
\* leaves the bounds and the statistics as they were.
C14_InclusiveAndPure ==
    /\ [](call.fn = "isWithinAreaBounds" =>
            LET lon == call.args[1]
                lat == call.args[2]
                b == areaOfInterestBounds
            IN  call.result =
                   (\/ b = NoBounds
                    \/ (b[1] <= lon /\ lon <= b[3] /\ b[2] <= lat /\ lat <= b[4])))
    /\ [][pc = "isWithinAreaBounds" =>
            (areaOfInterestBounds' = areaOfInterestBounds /\ stats' = stats)]_vars

\* the corner of the box is inside
C14_Witness ==
    /\ call.fn = "isWithinAreaBounds"
    /\ areaOfInterestBounds = AreaBox
    /\ call.args = <<AreaBox[1], AreaBox[2]>>
    /\ call.result = TRUE

\* C15: boundsIntersectArea(bbox) is true if and only if the area bounds are
\* unset, or bbox is unset, or the two rectangles are not disjoint (touching
\* along an edge or at a corner intersects); exchanging the two boxes gives
\* the same result.
C15_NotDisjointAndSymmetric ==
    call.fn = "boundsIntersectArea" =>
        LET a == areaOfInterestBounds
            b == call.args[1]
        IN  /\ call.result =
                  (\/ a = NoBounds
                   \/ b = NoBounds
                   \/ /\ Max(a[1], b[1]) <= Min(a[3], b[3])
                      /\ Max(a[2], b[2]) <= Min(a[4], b[4]))
            /\ call.result = boundsIntersectArea(b, a)

\* a box that touches the area's box at one corner only intersects it
C15_Witness ==
    /\ call.fn = "boundsIntersectArea"
    /\ areaOfInterestBounds = AreaBox
    /\ call.args[1] = <<AreaBox[3], AreaBox[4], 170, 510>>
    /\ call.result = TRUE

\* C16: the filtered-by-area counter counts the records the area filter
\* rejected and nothing else: records with invalid geometry and records whose
\* INSERT failed are not added to it.
C16_FilteredCountsAreaRejectionsOnly ==
    (entry \in PolygonImporters /\ pc = "done")
        => stats.filteredOutByArea = filterChecks - inserts

\* the tables the importers only insert into
InsertOnlyTables == Tables \ {"voting_districts", "study_area_boundaries"}

\* C17: in a run that follows an earlier run, no row of the earlier run is
\* left in an insert-only table once clearExistingData has returned, also when
\* a TRUNCATE statement failed.
C17_NoRowSurvivesRerun ==
    (IsRun /\ Len(started) > IndexOf(StepOrder, "clearExistingData")) =>
        \A t \in InsertOnlyTables : \A i \in 1..Len(tables[t]) :
            tables[t][i].file # "previous run"

\* C18: importing the same features again without truncation adds no row:
\* the table holds at most one row per source feature, whatever its key.
C18_ReimportAddsNoRow ==
    (entry \in UpsertImporters /\ pc = "done") =>
        \A f \in AllFiles : \A k \in 1..Len(files[f].records) :
            Cardinality({i \in 1..Len(tables[TableOf(entry, f)]) :
                            /\ tables[TableOf(entry, f)][i].file = f
                            /\ tables[TableOf(entry, f)][i].id = files[f].records[k].id}) <= 1

\* the number of a source column: its value, or 0 when it is absent or not numeric
ColumnValue(cell) == IF cell.t = "num" THEN cell.v ELSE 0

\* the rows of voting_districts inserted from the source files
DistrictRows ==
    {tables["voting_districts"][i] : i \in
        {i \in 1..Len(tables["voting_districts"]) :
            tables["voting_districts"][i].file \in AllFiles}}

\* C19: for every imported voting district each of the six percentages is the
\* number of its source column or 0, left_green_combined is spo + grune + kpo,
\* and has_voting_data is true if and only if one of the six is positive.
C19_PercentagesAndDerivedColumns ==
    \A row \in DistrictRows :
        LET votes == SourceOf(row).votes
            d == row.data
        IN  /\ d.spo_percent = ColumnValue(votes.SPO_perc)
            /\ d.grune_percent = ColumnValue(votes.GRUENE_per)
            /\ d.kpo_percent = ColumnValue(votes.KPOE_perc)
            /\ d.ovp_percent = ColumnValue(votes.OEVP_perc)
            /\ d.fpo_percent = ColumnValue(votes.FPOE_perc)
            /\ d.neos_percent = ColumnValue(votes.NEOS_perce)
            /\ d.left_green_combined = d.spo_percent + d.grune_percent + d.kpo_percent
            /\ d.has_voting_data =
                  (\E x \in {d.spo_percent, d.grune_percent, d.kpo_percent,
                              d.ovp_percent, d.fpo_percent, d.neos_percent} : x > 0)

\* the district of 20/10/2/30/30/8 percent is stored with 32 percent and
\* has_voting_data, next to a district of zeros stored without
C19_Witness ==
    /\ \E row \in DistrictRows :
          /\ row.id = dExample.id
          /\ row.data.left_green_combined = 3200
          /\ row.data.has_voting_data
    /\ \E row \in DistrictRows :
          /\ row.id = dZeros.id
          /\ ~row.data.has_voting_data

\* the ten buckets: at or below 0, then the intervals between the thresholds
\* (lower threshold included), in hundredths of a percent
BucketThresholds == <<500, 1000, 1500, 2000, 3000, 4000, 5000, 6000>>
BucketColors ==
    <<"#cccccc", "#EE8800", "#DDAA00", "#CCCC00", "#AAAA00", "#88EE88", "#66DD66",
      "#44CC44", "#22BB22", "#00AA00">>
InBucket(k, v) ==
    IF k = 1 THEN v <= 0
    ELSE /\ (IF k = 2 THEN v > 0 ELSE v >= BucketThresholds[k - 2])
         /\ (k = Len(BucketColors) \/ v < BucketThresholds[k - 1])
BucketsOf(v) == {k \in 1..Len(BucketColors) : InBucket(k, v)}

\* C20: the color is a step function of left_green_combined with ten buckets:
\* gray without voting data or at or below 0, then one color per interval,
\* every percentage in exactly one bucket.
C20_ColorIsStepFunction ==
    /\ \A row \in DistrictRows :
          LET v == row.data.left_green_combined
          IN  /\ Cardinality(BucketsOf(v)) = 1
              /\ row.data.choropleth_color =
                    IF row.data.has_voting_data
                    THEN BucketColors[CHOOSE k \in BucketsOf(v) : TRUE]
                    ELSE "#cccccc"
    /\ call.fn = "getVotingColor" =>
          IF call.args[1].t # "num" THEN call.result = "#cccccc"
          ELSE /\ Cardinality(BucketsOf(call.args[1].v)) = 1
               /\ call.result = BucketColors[CHOOSE k \in BucketsOf(call.args[1].v) : TRUE]

\* 32 percent is stored with the color of 30 to 39 percent
C20_Witness ==
    \E row \in DistrictRows :
        /\ row.data.left_green_combined = 3200
        /\ row.data.has_voting_data
        /\ row.data.choropleth_color = "#66DD66"

\* the rows of co2_sources inserted from the source files
SourceRows ==
    {tables["co2_sources"][i] : i \in
        {i \in 1..Len(tables["co2_sources"]) : tables["co2_sources"][i].file \in AllFiles}}

\* C21: for every imported CO2 source is_prominent is true if and only if
\* total_co2_t > 50000 strictly, a missing total being 0, and pin_size is 4
\* exactly when is_prominent is true and 2 otherwise.
C21_ProminentAbove50000 ==
    \A row \in SourceRows :
        LET total == SourceOf(row).total
            tonnes == IF total.t = "num" THEN total.v ELSE 0
        IN  /\ row.data.is_prominent = (tonnes > 50000)
            /\ row.data.pin_size = IF row.data.is_prominent THEN 4 ELSE 2
            /\ total.t = "undef" => row.data.total_co2_t = Num(0)

\* a source of 50000 t stored as not prominent next to one of 50001 t stored
\* as prominent
C21_Witness ==
    /\ \E row \in SourceRows :
          /\ SourceOf(row).total = Num(50000)
          /\ ~row.data.is_prominent /\ row.data.pin_size = 2
    /\ \E row \in SourceRows :
          /\ SourceOf(row).total = Num(50001)
          /\ row.data.is_prominent /\ row.data.pin_size = 4

\* the last geometry tested by a polygon importer was handed to simplifyGeometry
\* and turf.simplify raised on it
SimplifyFailed == simplifyIO.checked /\ simplifyIO.called /\ turfRaises(simplifyIO.input)

\* C22: simplifyGeometry never raises: when the simplification fails it
\* returns the very geometry it was given, unchanged, and the importer that
\* called it still issues the INSERT of the record, with that geometry.
C22_SimplifyFailureKeepsInput ==
    /\ simplifyIO.checked => simplifyIO.output # Thrown
    /\ SimplifyFailed =>
          /\ simplifyIO.output = simplifyIO.input
          /\ simplifyIO.stored = simplifyIO.input

\* a polygon above the vertex count of its importer on which turf.simplify
\* raised, stored in the table as it was
C22_Witness ==
    /\ SimplifyFailed
    /\ simplifyIO.complexity > 500
    /\ \E t \in {"groundwater_protection", "conservation_areas", "settlement_areas"} :
          \E i \in 1..Len(tables[t]) : tables[t][i].geom = simplifyIO.input

\* the vertex counts of the claim, by importer
C26_Threshold(step) == IF step = "importGroundwaterAreasOptimized" THEN 1000 ELSE 500

\* C26: a large-polygon importer hands a geometry to simplifyGeometry if and
\* only if its vertex count strictly exceeds the threshold of the importer
\* (1000 groundwater, 500 conservation and settlement areas); a geometry at or
\* below the threshold is inserted with its transformed geometry unchanged.
C26_SimplifiedIffAboveThreshold ==
    simplifyIO.checked =>
        /\ simplifyIO.complexity = getGeometryComplexity(simplifyIO.input)
        /\ simplifyIO.called <=> simplifyIO.complexity > C26_Threshold(simplifyIO.step)
        /\ ~simplifyIO.called => simplifyIO.stored = simplifyIO.input
        /\ simplifyIO.called /\ ~turfRaises(simplifyIO.input) =>
              simplifyIO.stored = [simplifyIO.input EXCEPT
                                      !.coordinates = simplifyCoords(@)]

\* a groundwater polygon of exactly 1000 vertices stored unchanged next to
\* nothing simplified
C26_Witness ==
    /\ simplifyIO.checked
    /\ simplifyIO.step = "importGroundwaterAreasOptimized"
    /\ simplifyIO.complexity = 1000
    /\ ~simplifyIO.called
    /\ \E i \in 1..Len(tables["groundwater_protection"]) :
          tables["groundwater_protection"][i].geom = simplifyIO.input

\* a conservation polygon of 501 vertices stored simplified
C26_WitnessAbove ==
    /\ simplifyIO.checked
    /\ simplifyIO.step = "importConservationAreasOptimized"
    /\ simplifyIO.complexity = 501
    /\ simplifyIO.called
    /\ simplifyIO.stored # simplifyIO.input

\* the rows of a table inserted from the source files
FileRows(t) == {tables[t][i] : i \in {i \in 1..Len(tables[t]) : tables[t][i].file \in AllFiles}}

\* the stored geometry of a row lies outside the area of interest
OutsideArea(row) ==
    /\ row.geom # NullGeometry
    /\ row.geom.type \in GeometryTypes
    /\ isValidGeoJSON(row.geom)
    /\ ~boundsIntersectArea(areaOfInterestBounds, getGeometryBounds(row.geom))

\* C23: when the area bounds are set, no importer inserts a row for a record
\* that lies outside the bounds or whose bounding box is disjoint from them,
\* the voting district and boundary importers included.
C23_NoRowOutsideArea ==
    areaOfInterestBounds # NoBounds =>
        \A t \in Tables : \A row \in FileRows(t) : ~OutsideArea(row)

\* the tables of point layers
PointTables ==
    {"co2_sources", "landfills", "gravel_pits", "wastewater_plants", "gas_storage_sites",
     "gas_distribution_points", "compressor_stations"}

\* the coordinates of a source record are missing or not a number
SourceCoordinatesUnusable(rec) ==
    IF rec.geometry = NullGeometry
    THEN ~IsFiniteNumber(parseFloat(rec.lon)) \/ ~IsFiniteNumber(parseFloat(rec.lat))
    ELSE \/ rec.geometry.coordinates = Undef
         \/ \E i \in 1..Len(extractFirstCoordinate(rec.geometry).v) :
               ~IsFiniteNumber(extractFirstCoordinate(rec.geometry).v[i])

\* C24: every row of a point table has a point geometry with longitude in
\* [-180, 180] and latitude in [-90, 90], and no row is inserted for a record
\* whose source coordinates are NaN, missing or out of range.
C24_PointRowsFromUsableCoordinates ==
    \A t \in PointTables : \A row \in FileRows(t) :
        /\ row.geom.type = "Point"
        /\ isValidWGS84(row.geom.coordinates)
        /\ ~SourceCoordinatesUnusable(SourceOf(row))

\* the cap in force for a step of the run
CapOf(step) == maxFeatures(step, isProduction)

\* the position in its file of the record a row was made from
PositionOf(row) ==
    LET rs == files[row.file].records
    IN  CHOOSE i \in 1..Len(rs) : rs[i].id = row.id

\* the files of the capped importers
CappedFiles ==
    UNION {{<<s, FilesOf(s)[i]>> : i \in 1..Len(FilesOf(s))} : s \in CappedImporters}

AwaitedCallsWithoutQuery == {"step", "read"}

\* the kinds of call the source awaits: this.<step>() in importAllData, the
\* file reads (shapefile.read, shapefile.open, reader.read, the csv promise)
\* and this.client.query, connect and end
AwaitedCalls == {"step", "read", "query"}

Awaited(kind) == kind \in AwaitedCalls

\* the steps that go through source files, and those that read a shapefile
\* record by record
FileSteps == Importers \cup {"loadAreaBounds"}
Streamed(step) == step \in PolygonImporters

\* the statements of a step without files: connect, 15 TRUNCATEs, DROP and
\* CREATE of the view, the UPDATE and the four ST_Simplify UPDATEs, end
StatementsOf(step) ==
    CASE step = "connect" -> 1
      [] step = "clearExistingData" -> Len(ClearTables)
      [] step = "createMaterializedViews" -> 2
      [] step = "updateGeometryValidation" -> 5
      [] step = "finally" -> 1
      [] OTHER -> 0

\* the steps whose failed statement ends the loop it is in
AbortingSteps ==
    (Importers \ PolygonImporters) \cup {"connect", "createMaterializedViews"}

NFiles(step) == IF step \in FileSteps THEN Len(FilesOf(step)) ELSE 1
FileStatus(step, fi) == IF step \in FileSteps THEN files[FilesOf(step)[fi]].status ELSE "ok"
NRecords(step, fi) ==
    IF step = "loadAreaBounds" THEN 0
    ELSE IF step \in FileSteps THEN Len(files[FilesOf(step)[fi]].records)
    ELSE StatementsOf(step)

TaskOf(i) == eventLoop.tasks[i]
Running(i) == TaskOf(i).state = "run" /\ TaskOf(i).waits = "none"
SetTask(i, task) == [eventLoop EXCEPT !.tasks[i] = task]

\* everything but the event loop
runVars ==
    <<entry, isProduction, files, pc, loc, connected, areaOfInterestBounds, stats,
      tables, raised, summaryPrinted, exitCode, started, truncated, inserts,
      filterChecks, geomIO, fileLog, call, simplifyIO, client>>

\* importAllData calls its next step; it is suspended if it awaits the call
CallStep ==
    /\ ~eventLoop.suspended
    /\ eventLoop.at <= Len(Calls)
    /\ TaskOf(eventLoop.at).state = "new"
    /\ LET step == Calls[eventLoop.at]
           sync == step \in {"checkDataDirectories", "printSummary"}
           task == [NewTask EXCEPT !.state = IF sync THEN "ended" ELSE "run",
                                   !.open = step \notin FileSteps]
       IN  eventLoop' =
               [SetTask(eventLoop.at, task) EXCEPT
                   !.suspended = ~sync /\ Awaited("step"),
                   !.at = IF sync \/ ~Awaited("step") THEN @ + 1 ELSE @]
    /\ UNCHANGED runVars

\* the awaited step has returned: importAllData goes on, to its finally block
\* if the step raised
StepReturns ==
    /\ eventLoop.suspended
    /\ TaskOf(eventLoop.at).state = "ended"
    /\ eventLoop' =
           [eventLoop EXCEPT
               !.suspended = FALSE,
               !.at = IF entry # "importAllData" THEN Len(Calls) + 1
                      ELSE IF TaskOf(eventLoop.at).failed /\ eventLoop.at < Len(Calls)
                      THEN Len(Calls)
                      ELSE @ + 1]
    /\ UNCHANGED runVars

\* fs.existsSync is false: the next file; importWastewaterPlants raises where
\* it tests for its file
PassFile(i) ==
    /\ Running(i)
    /\ Calls[i] \in FileSteps
    /\ ~TaskOf(i).open
    /\ TaskOf(i).fi <= NFiles(Calls[i])
    /\ IF Calls[i] = "importWastewaterPlants"
       THEN eventLoop' = SetTask(i, [TaskOf(i) EXCEPT !.state = "ended", !.failed = TRUE])
       ELSE /\ FileStatus(Calls[i], TaskOf(i).fi) = "missing"
            /\ eventLoop' = SetTask(i, [TaskOf(i) EXCEPT !.fi = @ + 1])
    /\ UNCHANGED runVars

\* a file read is issued: of the whole file, or of the next record of a
\* shapefile that is open
IssueRead(i) ==
    /\ Running(i)
    /\ Calls[i] \in FileSteps
    /\ Calls[i] # "importWastewaterPlants"
    /\ TaskOf(i).fi <= NFiles(Calls[i])
    /\ \/ ~TaskOf(i).open /\ FileStatus(Calls[i], TaskOf(i).fi) # "missing"
       \/ TaskOf(i).open /\ Streamed(Calls[i]) /\ ~TaskOf(i).have
    /\ eventLoop' =
           [SetTask(i, IF Awaited("read") THEN [TaskOf(i) EXCEPT !.waits = "read"]
                       ELSE IF TaskOf(i).open THEN [TaskOf(i) EXCEPT !.have = TRUE]
                       ELSE [TaskOf(i) EXCEPT !.open = TRUE])
               EXCEPT !.reads = @ + 1]
    /\ UNCHANGED runVars

\* the method suspended on a read, after the read has completed: the file is
\* open, its next record is there, it has no more records, or the read failed
AfterRead(i) ==
    LET task == [TaskOf(i) EXCEPT !.waits = "none"]
        step == Calls[i]
    IN  IF ~task.open
        THEN IF FileStatus(step, task.fi) = "ok"
             THEN [task EXCEPT !.open = TRUE, !.ri = 1, !.have = FALSE]
             ELSE [task EXCEPT !.fi = @ + 1]
        ELSE IF task.ri > NRecords(step, task.fi)
        THEN [task EXCEPT !.open = FALSE, !.fi = @ + 1, !.ri = 1]
        ELSE [task EXCEPT !.have = TRUE]

ReadCompletes ==
    /\ eventLoop.reads > 0
    /\ LET waiting == {i \in 1..Len(Calls) : TaskOf(i).waits = "read"}
       IN  IF waiting = {}
           THEN eventLoop' = [eventLoop EXCEPT !.reads = @ - 1]
           ELSE \E i \in waiting :
                   eventLoop' = [SetTask(i, AfterRead(i)) EXCEPT !.reads = @ - 1]
    /\ UNCHANGED runVars

\* the record or statement the method is at
AtRecord(i) ==
    /\ Running(i)
    /\ TaskOf(i).open
    /\ TaskOf(i).ri <= NRecords(Calls[i], TaskOf(i).fi)
    /\ Streamed(Calls[i]) => TaskOf(i).have

\* the next record or statement
Advance(task) == [task EXCEPT !.ri = @ + 1, !.have = FALSE, !.waits = "none"]

\* a statement is issued on the connection
IssueQuery(i) ==
    /\ AtRecord(i)
    /\ eventLoop' =
           [SetTask(i, IF Awaited("query") THEN [TaskOf(i) EXCEPT !.waits = "query"]
                       ELSE Advance(TaskOf(i)))
               EXCEPT !.queries = @ + 1]
    /\ UNCHANGED runVars

\* a record that is invalid or filtered out leads to no statement
PassRecord(i) ==
    /\ AtRecord(i)
    /\ Calls[i] \in Importers
    /\ eventLoop' = SetTask(i, Advance(TaskOf(i)))
    /\ UNCHANGED runVars

\* the method suspended on a statement, after the statement has failed
AfterFailure(i) ==
    LET step == Calls[i]
    IN  IF step \notin AbortingSteps THEN Advance(TaskOf(i))
        ELSE IF step = "connect"
        THEN [TaskOf(i) EXCEPT !.state = "ended", !.failed = TRUE, !.waits = "none"]
        ELSE [Advance(TaskOf(i)) EXCEPT !.open = FALSE, !.fi = @ + 1, !.ri = 1]

QueryCompletes ==
    /\ eventLoop.queries > 0
    /\ LET waiting == {i \in 1..Len(Calls) : TaskOf(i).waits = "query"}
       IN  IF waiting = {}
           THEN eventLoop' = [eventLoop EXCEPT !.queries = @ - 1]
           ELSE \E i \in waiting :
                   \/ eventLoop' = [SetTask(i, Advance(TaskOf(i))) EXCEPT !.queries = @ - 1]
                   \/ eventLoop' = [SetTask(i, AfterFailure(i)) EXCEPT !.queries = @ - 1]
    /\ UNCHANGED runVars

\* the loop over the records of a file read as a whole, or over the
\* statements of a step, has come to its end
LoopEnds(i) ==
    /\ Running(i)
    /\ TaskOf(i).open
    /\ ~Streamed(Calls[i])
    /\ TaskOf(i).ri > NRecords(Calls[i], TaskOf(i).fi)
    /\ eventLoop' = SetTask(i, [TaskOf(i) EXCEPT !.open = FALSE, !.fi = @ + 1, !.ri = 1])
    /\ UNCHANGED runVars

\* the method returns: its promise is fulfilled
TaskEnds(i) ==
    /\ Running(i)
    /\ ~TaskOf(i).open
    /\ TaskOf(i).fi > NFiles(Calls[i])
    /\ eventLoop' = SetTask(i, [TaskOf(i) EXCEPT !.state = "ended"])
    /\ UNCHANGED runVars

PassAFile == \E i \in 1..Len(Calls) : PassFile(i)
IssueARead == \E i \in 1..Len(Calls) : IssueRead(i)
IssueAQuery == \E i \in 1..Len(Calls) : IssueQuery(i)
PassARecord == \E i \in 1..Len(Calls) : PassRecord(i)
ALoopEnds == \E i \in 1..Len(Calls) : LoopEnds(i)
ATaskEnds == \E i \in 1..Len(Calls) : TaskEnds(i)

\* a run of importAllData, or one importer called on its own
InitEventLoop ==
    /\ InitCommon
    /\ tables = EmptyTables
    /\ \/ InitRun /\ eventLoop = FreshEventLoop
       \/ /\ InitUnit
          /\ entry \in Importers
          /\ areaOfInterestBounds = NoBounds
          /\ eventLoop = [FreshEventLoop EXCEPT !.at = IndexOf(Calls, entry)]

NextEventLoop ==
    \/ CallStep
    \/ StepReturns
    \/ PassAFile
    \/ IssueARead
    \/ ReadCompletes
    \/ IssueAQuery
    \/ PassARecord
    \/ QueryCompletes
    \/ ALoopEnds
    \/ ATaskEnds

SpecEventLoop == InitEventLoop /\ [][NextEventLoop]_vars

\* the methods called that have not returned
ActiveTasks == {i \in 1..Len(Calls) : TaskOf(i).state = "run"}

\* C27: throughout a run at most one database statement and at most one file
\* read are in flight: a statement is issued only after the one before it has
\* completed, and importAllData starts a step only after every step before it
\* has returned.
C27_OneAtATime ==
    /\ eventLoop.queries <= 1
    /\ eventLoop.reads <= 1
    /\ Cardinality(ActiveTasks) <= 1
    /\ \A i \in 1..Len(Calls) :
          TaskOf(i).state # "new" =>
              \A j \in 1..(i - 1) : TaskOf(j).state # "run" /\ TaskOf(j).waits = "none"

\* the second INSERT of the CO2 importer in flight, every step before the
\* importer having returned
C27_Witness ==
    /\ eventLoop.queries = 1
    /\ \E i \in ActiveTasks :
          /\ Calls[i] = "importCO2Sources"
          /\ TaskOf(i).waits = "query"
          /\ TaskOf(i).ri = 2
          /\ \A j \in 1..(i - 1) : TaskOf(j).state = "ended"

\* the tables that have a counter in the statistics
CountedTables == Tables \ {"study_area_boundaries"}

\* C28: at the end of a run every per-layer counter of the statistics equals
\* the number of rows the run inserted into the table of the layer, also when
\* an insert fails part-way through a file and when voting features share a
\* district code, and the total printed is the sum of the per-layer counters.
C28_CountersEqualRows ==
    RunEnded =>
        /\ \A t \in CountedTables : stats[StatOf(t)] = CountRows({t}, AllFiles)
        /\ totalPrinted(stats) = SumOver(stats, {StatOf(t) : t \in CountedTables})

\* C29: for every value of left_green_combined and of has_voting_data the
\* color the importer stores (getVotingColor, gray without voting data), the
\* computed_fill_color of mv_voting_choropleth and the color the browser's
\* getVotingColor gives are one and the same color.
C29_ThreeColorsAgree ==
    call.fn = "colorDistrict" =>
        /\ call.result.choropleth_color = call.result.computed_fill_color
        /\ call.result.computed_fill_color = call.result.browser

\* a district of exactly 60 percent with voting data, dark green three times
C29_Witness ==
    /\ call.fn = "colorDistrict"
    /\ call.args = <<Num(6000), TRUE>>
    /\ call.result.choropleth_color = "#00AA00"
    /\ call.result.browser = "#00AA00"

(***************************************************************************)
(* The browser client, src/public/js/app.js: apiRequest with its cache     *)
(* (121-169), loadCO2Sources (608-668), refreshData (1435-1455),           *)
(* saveCO2Source and deleteCO2Source (1650-1722).  The list of CO2 sources *)
(* is stood for by its version on the server, which every write that       *)
(* succeeds raises by one; the clock counts minutes.                       *)
(***************************************************************************)
\* Date.now() - cached.timestamp < 300000
CacheMinutes == 5
MaxClock == 6
MaxWrites == 2

everythingButClient ==
    <<entry, isProduction, files, pc, loc, connected, areaOfInterestBounds, stats,
      tables, raised, summaryPrinted, exitCode, started, truncated, inserts,
      filterChecks, geomIO, fileLog, call, simplifyIO, eventLoop>>

\* apiRequest answers a GET from requestCache
CacheHit ==
    client.cache # NoEntry /\ client.now - client.cache.timestamp < CacheMinutes

\* a minute passes
Tick ==
    /\ client.now < MaxClock
    /\ client' = [client EXCEPT !.now = @ + 1]
    /\ UNCHANGED everythingButClient

\* loadAllLayers at start-up calls loadCO2Sources: the cached list, or a fetch
InitialLoad ==
    /\ client.loader.at = "idle"
    /\ client' = IF CacheHit
                 THEN [client EXCEPT !.markers = client.cache.data]
                 ELSE [client EXCEPT !.loader.at = "sent"]
    /\ UNCHANGED everythingButClient

\* refreshData: requestCache.clear(), the layers cleared, loadAllLayers
RefreshData ==
    /\ client.loader.at = "idle"
    /\ client' = [client EXCEPT !.cache = NoEntry, !.markers = -1, !.loader.at = "sent"]
    /\ UNCHANGED everythingButClient

\* the server answers the GET of the loader with the list as it is
ServerAnswersLoader ==
    /\ client.loader.at = "sent"
    /\ client' = [client EXCEPT !.loader.at = "answered", !.loader.response = client.server]
    /\ UNCHANGED everythingButClient

\* the response arrives: cached with the time of arrival, markers added; or
\* the third attempt has failed and loadCO2Sources logs the error
LoaderCompletes ==
    /\ client.loader.at = "answered"
    /\ \/ client' = [client EXCEPT
                        !.cache = [data |-> client.loader.response, timestamp |-> client.now],
                        !.markers = client.loader.response,
                        !.loader = [at |-> "idle", response |-> -1]]
       \/ client' = [client EXCEPT !.loader = [at |-> "idle", response |-> -1]]
    /\ UNCHANGED everythingButClient

\* saveCO2Source or deleteCO2Source sends its PUT, POST or DELETE
WriteStarts ==
    /\ client.writer.at = "idle"
    /\ client.server < MaxWrites
    /\ \E method \in {"save", "delete"} :
          client' = [client EXCEPT !.writer.at = "writing", !.writer.method = method]
    /\ UNCHANGED everythingButClient

\* the write has failed on every attempt: the catch block of the handler
WriteFails ==
    /\ client.writer.at = "writing"
    /\ client' = [client EXCEPT !.writer = [at |-> "idle", response |-> -1, method |-> "none"]]
    /\ UNCHANGED everythingButClient

\* the write has succeeded: clusterGroups.co2Sources.clearLayers(), then
\* await this.loadCO2Sources(), which asks apiRequest for the list
WriteSucceeds ==
    /\ client.writer.at = "writing"
    /\ client' =
           IF CacheHit
           THEN [client EXCEPT
                    !.server = @ + 1,
                    !.markers = client.cache.data,
                    !.writer = [at |-> "idle", response |-> -1, method |-> "none"],
                    !.settled = [method |-> client.writer.method, wrote |-> client.server + 1,
                                 reloadedFrom |-> client.cache.data, cached |-> TRUE]]
           ELSE [client EXCEPT !.server = @ + 1, !.markers = -1, !.writer.at = "sent"]
    /\ UNCHANGED everythingButClient

\* the server answers the GET of the reload
ServerAnswersWriter ==
    /\ client.writer.at = "sent"
    /\ client' = [client EXCEPT !.writer.at = "answered", !.writer.response = client.server]
    /\ UNCHANGED everythingButClient

\* the response of the reload arrives, or its third attempt has failed
ReloadCompletes ==
    /\ client.writer.at = "answered"
    /\ \/ client' = [client EXCEPT
                        !.cache = [data |-> client.writer.response, timestamp |-> client.now],
                        !.markers = client.writer.response,
                        !.writer = [at |-> "idle", response |-> -1, method |-> "none"],
                        !.settled = [method |-> client.writer.method,
                                     wrote |-> client.server,
                                     reloadedFrom |-> client.writer.response,
                                     cached |-> FALSE]]
       \/ client' = [client EXCEPT
                        !.writer = [at |-> "idle", response |-> -1, method |-> "none"]]
    /\ UNCHANGED everythingButClient

InitClient ==
    /\ InitCommon
    /\ eventLoop = FreshEventLoop
    /\ entry = "browser"
    /\ pc = "browser"
    /\ files = [f \in AllFiles |-> MissingFile]
    /\ tables = EmptyTables
    /\ connected = FALSE
    /\ areaOfInterestBounds = NoBounds
    /\ started = <<>>

NextClient ==
    \/ Tick
    \/ InitialLoad
    \/ RefreshData
    \/ ServerAnswersLoader
    \/ LoaderCompletes
    \/ WriteStarts
    \/ WriteFails
    \/ WriteSucceeds
    \/ ServerAnswersWriter
    \/ ReloadCompletes

SpecClient == InitClient /\ [][NextClient]_vars

\* C30: after saveCO2Source or deleteCO2Source has completed successfully the
\* CO2 markers are rebuilt from a response fetched after the write, never
\* from a requestCache entry stored before it.
C30_ReloadIsFetchedAfterWrite ==
    client.settled.method \in {"save", "delete"} =>
        /\ ~client.settled.cached
        /\ client.settled.reloadedFrom >= client.settled.wrote

====
